---- MODULE Spec2Model ----
(***************************************************************************)
(* Verification model of the credit-card statement parser backend:         *)
(*   - services/statementFilter.js  (date parsing, grouping, latest pick)  *)
(*   - services/pdfValidator.js     (isLikelyCreditCardStatement)          *)
(*   - services/gmailService.js     (processEmail triage cascade)          *)
(*                                                                         *)
(* Strings are modelled by what the code does with them:                   *)
(*   - a statementPeriod is a sequence of lexical tokens (digit runs,      *)
(*     letter runs, whitespace runs and the punctuation the regular        *)
(*     expressions mention); every digit group of every regular            *)
(*     expression of parseStatementDate is delimited by a non-digit on     *)
(*     both sides, so a regex match is a match of whole tokens;            *)
(*   - a Date is the number of days since 1970-01-01 (every Date the       *)
(*     parser builds is a local midnight, so day order is time order).     *)
(***************************************************************************)
EXTENDS Integers, Sequences, FiniteSets, TLC

VARIABLES
    statements,     \* filterLatestStatements: the input array
    result,         \* filterLatestStatements: the returned object (or NoResult)
    statementPeriod,\* parseStatementDate: the input string (token sequence)
    written,        \* ghost: the dates and format the period was written from
    parsed,         \* parseStatementDate: <<>> before the call, then <<returned value>>
    pdfText,        \* isLikelyCreditCardStatement: the extracted text (chunks)
    verdict,        \* isLikelyCreditCardStatement: <<>> before the call, then <<returned object>>
    email,          \* processEmail: the message behind messageId
    pc,             \* processEmail: the await the call is suspended at
    decision,       \* processEmail: shouldProcess, decisionCase, reason
    downloadedAttachments, \* processEmail: the attachments downloaded so far
    uploads,        \* the files of the uploads directory
    analysis,       \* processEmail: <<>>, then <<what analyzePDFContent returned>>
    outcome,        \* processEmail: <<>>, then <<the returned object>>
    calls,          \* history: the calls made to downloadAttachment, parsePDF, the
                    \* classifier and fs.unlink, and the unlink calls that failed
    groqResult,     \* the parsed JSON response extractRewardPoints returned
    stated,         \* ghost: the numbers the statement text prints beside the
                    \* adjusted/lapsed and the closing labels
    rewardPoints,   \* <<>>, then <<statement.rewardPoints as saved>>
    store,          \* the Statement collection: the saved documents, by _id
    upload,         \* uploadStatement: its position, req.file, the in-memory
                    \* statement, error and response
    fetch,          \* fetchStatementsFromGmail: its position, result.statements,
                    \* the loop index, the in-memory statement, the lists
                    \* processed/failed/duplicates, the response; and history
    pdf,            \* parsePDF: the pages pdfExtract.extract reads from the file
    parse,          \* parsePDF: its position, the extracted text, imagePaths, the
                    \* page and attempt of the OCR, the result or the error
    temp,           \* the files of the temp directory
    overlap,        \* the fetchStatementsFromGmail requests under way at the same
                    \* time, each with its position and the record it created
    card,           \* detectCardVariant: text, bankName and the returned variant
    mailbox         \* fetchAllStatements: the messages, the loop index, the
                    \* results and the statistics

\* A Date object (day: days since 1970-01-01), an Invalid Date, and null
DateOf(t)   == [isNull |-> FALSE, isNaN |-> FALSE, day |-> t]
InvalidDate == [isNull |-> FALSE, isNaN |-> TRUE, day |-> 0]
NullDate    == [isNull |-> TRUE, isNaN |-> FALSE, day |-> 0]

(***************************************************************************)
(* JavaScript Date(year, monthIndex, day): ECMAScript MakeDay / MakeDate.  *)
(***************************************************************************)
Abs(x) == IF x < 0 THEN -x ELSE x

IsLeap(y) == (y % 4 = 0 /\ y % 100 # 0) \/ y % 400 = 0

DaysInMonth(y, m) ==
    CASE m \in {1, 3, 5, 7, 8, 10, 12} -> 31
      [] m \in {4, 6, 9, 11} -> 30
      [] OTHER -> IF IsLeap(y) THEN 29 ELSE 28

\* ECMAScript DayFromYear(y)
DayFromYear(y) ==
    365 * (y - 1970) + ((y - 1969) \div 4) - ((y - 1901) \div 100)
        + ((y - 1601) \div 400)

RECURSIVE DaysBeforeMonth(_, _)
DaysBeforeMonth(y, m) ==
    IF m <= 1 THEN 0 ELSE DaysBeforeMonth(y, m - 1) + DaysInMonth(y, m - 1)

\* ECMAScript TimeClip: a time value beyond 8.64e15 ms (1e8 days) is NaN
TimeClipDays == 100000000

\* new Date(year, monthIndex, day): a two-digit year means 1900 + year, the
\* month index and the day roll over into the neighbouring months and years
NewDate(year, monthIndex, day) ==
    LET yr == IF year >= 0 /\ year <= 99 THEN 1900 + year ELSE year
        ym == yr + (monthIndex \div 12)
        mn == monthIndex % 12
        t  == DayFromYear(ym) + DaysBeforeMonth(ym, mn + 1) + day - 1
    IN  IF Abs(t) > TimeClipDays THEN InvalidDate ELSE DateOf(t)

(***************************************************************************)
(* statementPeriod strings as token sequences.                             *)
(***************************************************************************)
Num(n, v) == [t |-> "num", n |-> n, v |-> v, w |-> ""]   \* n digits, value v
Word(w)   == [t |-> "word", n |-> 0, v |-> 0, w |-> w]   \* a run of letters
Sp        == [t |-> "sp", n |-> 0, v |-> 0, w |-> " "]   \* a run of whitespace
Dash      == [t |-> "-", n |-> 0, v |-> 0, w |-> "-"]
Slash     == [t |-> "/", n |-> 0, v |-> 0, w |-> "/"]
Comma     == [t |-> ",", n |-> 0, v |-> 0, w |-> ","]

\* The letter runs the model writes, each with its String.toLowerCase()
WordLower ==
    [w \in {"Jan", "Feb", "Mar", "Apr", "APR", "April", "February", "December",
            "Dec", "Sept", "to", "TO", "upto", "dated"} |->
        CASE w = "Jan" -> "jan" [] w = "Feb" -> "feb" [] w = "Mar" -> "mar"
          [] w = "Apr" -> "apr" [] w = "APR" -> "apr" [] w = "April" -> "april"
          [] w = "February" -> "february" [] w = "December" -> "december"
          [] w = "Dec" -> "dec" [] w = "Sept" -> "sept" [] w = "TO" -> "to"
          [] OTHER -> w]


\* parseMonth: months[monthStr.toLowerCase()] || null  (null is 0 here: falsy)
MonthsTable ==
    [m \in {"jan", "january", "feb", "february", "mar", "march", "apr", "april",
            "may", "jun", "june", "jul", "july", "aug", "august", "sep",
            "september", "oct", "october", "nov", "november", "dec",
            "december"} |->
        CASE m \in {"jan", "january"} -> 1 [] m \in {"feb", "february"} -> 2
          [] m \in {"mar", "march"} -> 3 [] m \in {"apr", "april"} -> 4
          [] m = "may" -> 5 [] m \in {"jun", "june"} -> 6
          [] m \in {"jul", "july"} -> 7 [] m \in {"aug", "august"} -> 8
          [] m \in {"sep", "september"} -> 9 [] m \in {"oct", "october"} -> 10
          [] m \in {"nov", "november"} -> 11 [] OTHER -> 12]

parseMonth(monthStr) ==
    LET key == WordLower[monthStr]
    IN  IF key \in DOMAIN MonthsTable THEN MonthsTable[key] ELSE 0

\* String.trim(): leading and trailing whitespace removed
RECURSIVE TrimLeft(_)
TrimLeft(s) == IF s # <<>> /\ Head(s).t = "sp" THEN TrimLeft(Tail(s)) ELSE s

RECURSIVE TrimRight(_)
TrimRight(s) ==
    IF s # <<>> /\ s[Len(s)].t = "sp" THEN TrimRight(SubSeq(s, 1, Len(s) - 1))
    ELSE s

Trim(s) == TrimRight(TrimLeft(s))

(***************************************************************************)
(* The regular expressions of parseStatementDate, as sequences of elements *)
(* over tokens.  k: what the element matches; opt: the element may match   *)
(* nothing (\s*, ",?"); cap: a capture group.                              *)
(***************************************************************************)
El(k, opt, cap) == [k |-> k, opt |-> opt, cap |-> cap]

\* Whether one token is matched by one element.  "to" is a literal the regex
\* may find at the end of a longer letter run; "toi" is the same under /i.
Fits(e, tok) ==
    CASE e.k = "dash"  -> tok.t = "-"
      [] e.k = "slash" -> tok.t = "/"
      [] e.k = "comma" -> tok.t = ","
      [] e.k = "ws"    -> tok.t = "sp"
      [] e.k = "d12"   -> tok.t = "num" /\ tok.n \in {1, 2}
      [] e.k = "d2"    -> tok.t = "num" /\ tok.n = 2
      [] e.k = "d4"    -> tok.t = "num" /\ tok.n = 4
      [] e.k = "alpha" -> tok.t = "word"
      [] e.k = "to"    -> tok.t = "word" /\ tok.w \in {"to", "upto"}
      [] e.k = "toi"   -> tok.t = "word" /\ tok.w \in {"to", "TO", "upto"}
      [] OTHER -> FALSE

Fail == [ok |-> FALSE, caps |-> <<>>]

\* Match elements pat[i..] against tokens s[j..] up to the end of the string
\* ($): the captured tokens, or Fail.  Greedy with backtracking, as the
\* regex engine: an optional element first tries to match.
RECURSIVE MatchFrom(_, _, _, _)
MatchFrom(pat, i, s, j) ==
    IF i > Len(pat) THEN (IF j > Len(s) THEN [ok |-> TRUE, caps |-> <<>>] ELSE Fail)
    ELSE
        LET e == pat[i]
            taken ==
                IF j <= Len(s) /\ Fits(e, s[j])
                THEN LET r == MatchFrom(pat, i + 1, s, j + 1)
                     IN  IF ~r.ok THEN Fail
                         ELSE IF e.cap THEN [r EXCEPT !.caps = <<s[j]>> \o @]
                         ELSE r
                ELSE Fail
        IN  IF taken.ok THEN taken
            ELSE IF e.opt THEN MatchFrom(pat, i + 1, s, j)
            ELSE Fail

\* String.match(regex): anchored patterns (^...$) match from the first token;
\* the others from the leftmost position that gives a match.
RegexMatch(p, s) ==
    IF p.anchored THEN MatchFrom(p.regex, 1, s, 1)
    ELSE LET starts == {j \in 1..Len(s) : MatchFrom(p.regex, 1, s, j).ok}
         IN  IF starts = {} THEN Fail
             ELSE MatchFrom(p.regex, 1, s,
                            CHOOSE j \in starts : \A k \in starts : j <= k)

Req(k) == El(k, FALSE, FALSE)
Cap(k) == El(k, FALSE, TRUE)
Opt(k) == El(k, TRUE, FALSE)

patterns == <<
    \* /-\s*(\d{1,2})\s+([A-Za-z]+),?\s+(\d{4})\s*$/i
    [regex |-> <<Req("dash"), Opt("ws"), Cap("d12"), Req("ws"), Cap("alpha"),
                 Opt("comma"), Req("ws"), Cap("d4"), Opt("ws")>>,
     anchored |-> FALSE, parse |-> "DMonY"],
    \* /to\s+([A-Za-z]+)\s+(\d{1,2}),?\s+(\d{4})\s*$/i
    [regex |-> <<Req("toi"), Req("ws"), Cap("alpha"), Req("ws"), Cap("d12"),
                 Opt("comma"), Req("ws"), Cap("d4"), Opt("ws")>>,
     anchored |-> FALSE, parse |-> "MonDY"],
    \* /-\s*(\d{1,2})\/(\d{1,2})\/(\d{4})\s*$/
    [regex |-> <<Req("dash"), Opt("ws"), Cap("d12"), Req("slash"), Cap("d12"),
                 Req("slash"), Cap("d4"), Opt("ws")>>,
     anchored |-> FALSE, parse |-> "DMY"],
    \* /-\s*(\d{1,2})-(\d{1,2})-(\d{4})\s*$/
    [regex |-> <<Req("dash"), Opt("ws"), Cap("d12"), Req("dash"), Cap("d12"),
                 Req("dash"), Cap("d4"), Opt("ws")>>,
     anchored |-> FALSE, parse |-> "DMY"],
    \* /to\s+(\d{4})-(\d{2})-(\d{2})\s*$/
    [regex |-> <<Req("to"), Req("ws"), Cap("d4"), Req("dash"), Cap("d2"),
                 Req("dash"), Cap("d2"), Opt("ws")>>,
     anchored |-> FALSE, parse |-> "YMD"],
    \* /^(\d{1,2})\s+([A-Za-z]+),?\s+(\d{4})$/i
    [regex |-> <<Cap("d12"), Req("ws"), Cap("alpha"), Opt("comma"), Req("ws"),
                 Cap("d4")>>,
     anchored |-> TRUE, parse |-> "DMonY"],
    \* /^([A-Za-z]+)\s+(\d{1,2}),?\s+(\d{4})$/i
    [regex |-> <<Cap("alpha"), Req("ws"), Cap("d12"), Opt("comma"), Req("ws"),
                 Cap("d4")>>,
     anchored |-> TRUE, parse |-> "MonDY"],
    \* /^(\d{1,2})\/(\d{1,2})\/(\d{4})$/
    [regex |-> <<Cap("d12"), Req("slash"), Cap("d12"), Req("slash"), Cap("d4")>>,
     anchored |-> TRUE, parse |-> "DMY"],
    \* /^(\d{1,2})-(\d{1,2})-(\d{4})$/
    [regex |-> <<Cap("d12"), Req("dash"), Cap("d12"), Req("dash"), Cap("d4")>>,
     anchored |-> TRUE, parse |-> "DMY"],
    \* /^(\d{4})-(\d{2})-(\d{2})$/
    [regex |-> <<Cap("d4"), Req("dash"), Cap("d2"), Req("dash"), Cap("d2")>>,
     anchored |-> TRUE, parse |-> "YMD"],
    \* /^(\d{4})\/(\d{2})\/(\d{2})$/
    [regex |-> <<Cap("d4"), Req("slash"), Cap("d2"), Req("slash"), Cap("d2")>>,
     anchored |-> TRUE, parse |-> "YMD"] >>

\* Mutant of PatternParse: the month number is passed to Date as written,
\* not as the zero-based month index
PatternParseMonthAsWritten(kind, m) ==
    CASE kind = "DMonY" ->
            LET month == parseMonth(m[2].w)
            IN  IF month # 0 THEN NewDate(m[3].v, month, m[1].v) ELSE NullDate
      [] kind = "MonDY" ->
            LET month == parseMonth(m[1].w)
            IN  IF month # 0 THEN NewDate(m[3].v, month, m[2].v) ELSE NullDate
      [] kind = "DMY" -> NewDate(m[3].v, m[2].v, m[1].v)
      [] OTHER -> NewDate(m[1].v, m[2].v, m[3].v)

\* pattern.parse(match): parseInt of the digit groups, parseMonth of a name
PatternParse(kind, m) ==
    CASE kind = "DMonY" ->
            LET month == parseMonth(m[2].w)
            IN  IF month # 0 THEN NewDate(m[3].v, month - 1, m[1].v) ELSE NullDate
      [] kind = "MonDY" ->
            LET month == parseMonth(m[1].w)
            IN  IF month # 0 THEN NewDate(m[3].v, month - 1, m[2].v) ELSE NullDate
      [] kind = "DMY" -> NewDate(m[3].v, m[2].v - 1, m[1].v)
      [] OTHER -> NewDate(m[1].v, m[2].v - 1, m[3].v)

\* for (const pattern of patterns) { match; date = parse; if valid return }
RECURSIVE TryPatterns(_, _)
TryPatterns(periodStr, i) ==
    IF i > Len(patterns) THEN NullDate
    ELSE LET m == RegexMatch(patterns[i], periodStr)
             date == IF m.ok THEN PatternParse(patterns[i].parse, m.caps)
                     ELSE NullDate
         IN  IF m.ok /\ ~date.isNull /\ ~date.isNaN THEN date
             ELSE TryPatterns(periodStr, i + 1)

\* An absent or empty statementPeriod is <<>> (falsy)
parseStatementDate(period) ==
    IF period = <<>> THEN NullDate
    ELSE TryPatterns(Trim(period), 1)

(***************************************************************************)
(* Statement periods as banks write them: the inputs of parseStatementDate.*)
(* A written date is <<year, month, day>>; the writer may write a day that *)
(* the month does not have.                                                *)
(***************************************************************************)
Years  == {2024, 2025}
Months == {1, 2, 4, 12}
Days   == {2, 18, 29, 31}

EndDates   == Years \X Months \X Days
StartDates == {<<2024, 3, 20>>, <<2024, 1, 3>>}

\* How month m is spelled: abbreviated, in full, or in capitals
MonthName(m, style) ==
    CASE m = 1 -> "Jan"
      [] m = 2 -> IF style = "long" THEN "February" ELSE "Feb"
      [] m = 3 -> "Mar"
      [] m = 4 -> IF style = "long" THEN "April"
                  ELSE IF style = "caps" THEN "APR" ELSE "Apr"
      [] OTHER -> IF style = "long" THEN "December" ELSE "Dec"

TwoDigits(v) == Num(2, v)
\* a day or month written without a leading zero when pad is FALSE
Digits(v, pad) == IF v < 10 /\ ~pad THEN Num(1, v) ELSE Num(2, v)

\* One date in one of the layouts of the code's comments
WriteDate(layout, d, o) ==
    CASE layout = "DMonY" ->   \* 02 Feb, 2026
            <<Digits(d[3], o.pad), Sp, Word(MonthName(d[2], o.style))>>
            \o (IF o.comma THEN <<Comma>> ELSE <<>>) \o <<Sp, Num(4, d[1])>>
      [] layout = "MonDY" ->   \* February 2, 2025
            <<Word(MonthName(d[2], o.style)), Sp, Digits(d[3], o.pad)>>
            \o (IF o.comma THEN <<Comma>> ELSE <<>>) \o <<Sp, Num(4, d[1])>>
      [] layout = "DMYslash" -> \* 18/04/2024
            <<Digits(d[3], o.pad), Slash, Digits(d[2], o.pad), Slash, Num(4, d[1])>>
      [] layout = "DMYdash" ->  \* 18-04-2024
            <<Digits(d[3], o.pad), Dash, Digits(d[2], o.pad), Dash, Num(4, d[1])>>
      [] layout = "YMDdash" ->  \* 2024-01-31
            <<Num(4, d[1]), Dash, TwoDigits(d[2]), Dash, TwoDigits(d[3])>>
      [] OTHER ->               \* 2024/01/31
            <<Num(4, d[1]), Slash, TwoDigits(d[2]), Slash, TwoDigits(d[3])>>

Layouts == {"DMonY", "MonDY", "DMYslash", "DMYdash", "YMDdash", "YMDslash"}


Separator(sep, tight) ==
    IF sep = "to" THEN <<Sp, Word("to"), Sp>>
    ELSE IF tight THEN <<Dash>> ELSE <<Sp, Dash, Sp>>

WriteOptions ==
    [pad : BOOLEAN, comma : BOOLEAN, style : {"short", "long", "caps"},
     tight : BOOLEAN, padded : BOOLEAN]

\* "start <sep> end", possibly with blanks around it
WriteRange(layout, sep, sd, ed, o) ==
    LET body == WriteDate(layout, sd, o) \o Separator(sep, o.tight)
                    \o WriteDate(layout, ed, o)
    IN  IF o.padded THEN <<Sp>> \o body \o <<Sp>> ELSE body

WriteSingle(layout, ed, o) ==
    IF o.padded THEN <<Sp>> \o WriteDate(layout, ed, o) \o <<Sp>>
    ELSE WriteDate(layout, ed, o)

\* Options that do not change what layout writes are fixed, to keep every
\* written string distinct
Relevant(layout, sep, o) ==
    /\ (layout \notin {"DMonY", "MonDY"} => ~o.comma /\ o.style = "short")
    /\ (layout \in {"YMDdash", "YMDslash"} => o.pad)
    /\ (sep # "-" => ~o.tight)

\* Periods that match no pattern: "April 2024", "Sept"-spelled months, ...
OtherPeriods ==
    { <<>>,
      <<Word("April"), Sp, Num(4, 2024)>>,
      <<Num(2, 3), Sp, Word("Sept"), Comma, Sp, Num(4, 2026), Sp, Dash, Sp,
        Num(2, 2), Sp, Word("Sept"), Comma, Sp, Num(4, 2026)>>,
      <<Word("dated"), Sp, Num(2, 18), Slash, Num(2, 4), Slash, Num(4, 2024)>>,
      <<Num(2, 18), Slash, Num(2, 4), Slash, Num(2, 24)>> }

\* The range formats the code's comments name: layout and separator
SupportedRanges ==
    {<<"DMonY", "-">>, <<"MonDY", "to">>, <<"DMYslash", "-">>,
     <<"DMYdash", "-">>, <<"YMDdash", "to">>}

RangePeriods(l, sep) ==
    {[kind |-> "range", layout |-> l, sep |-> sep, start |-> sd, end |-> ed, o |-> o,
      text |-> WriteRange(l, sep, sd, ed, o)] :
        sd \in StartDates, ed \in EndDates,
        o \in {x \in WriteOptions : Relevant(l, sep, x) /\ x.style # "caps"}}

SinglePeriods(l) ==
    {[kind |-> "single", layout |-> l, sep |-> "", start |-> ed, end |-> ed, o |-> o,
      text |-> WriteSingle(l, ed, o)] :
        ed \in EndDates, o \in {x \in WriteOptions : Relevant(l, "", x)}}

NoOptions ==
    [pad |-> FALSE, comma |-> FALSE, style |-> "short", tight |-> FALSE,
     padded |-> FALSE]

\* Every input of the date specification, with how it was written
WrittenPeriods ==
    UNION {RangePeriods(l, sep) : l \in Layouts, sep \in {"-", "to"}}
    \cup UNION {SinglePeriods(l) : l \in Layouts}
    \cup {[kind |-> "other", layout |-> "", sep |-> "", start |-> <<0, 0, 0>>,
           end |-> <<0, 0, 0>>, o |-> NoOptions, text |-> t] : t \in OtherPeriods}

(***************************************************************************)
(* String methods, on strings.                                             *)
(***************************************************************************)
Uppercase == "ABCDEFGHIJKLMNOPQRSTUVWXYZ"
Lowercase == "abcdefghijklmnopqrstuvwxyz"

CharAt(str, i) == SubSeq(str, i, i)

LowerChar(c) ==
    IF \E i \in 1..Len(Uppercase) : CharAt(Uppercase, i) = c
    THEN CharAt(Lowercase, CHOOSE i \in 1..Len(Uppercase) : CharAt(Uppercase, i) = c)
    ELSE c

\* String.toLowerCase()
RECURSIVE ToLowerCase(_)
ToLowerCase(str) ==
    IF Len(str) = 0 THEN ""
    ELSE LowerChar(CharAt(str, 1)) \o ToLowerCase(SubSeq(str, 2, Len(str)))

\* String.trim()
RECURSIVE TrimChars(_)
TrimChars(str) ==
    IF Len(str) = 0 THEN str
    ELSE IF CharAt(str, 1) = " " THEN TrimChars(SubSeq(str, 2, Len(str)))
    ELSE IF CharAt(str, Len(str)) = " " THEN TrimChars(SubSeq(str, 1, Len(str) - 1))
    ELSE str

\* String.includes(key)
Includes(str, key) ==
    \E i \in 0..(Len(str) - Len(key)) : SubSeq(str, i + 1, i + Len(key)) = key

(***************************************************************************)
(* normalizeBankName.                                                      *)
(***************************************************************************)
\* the mappings object of normalizeBankName, in Object.entries order
BankMappings == <<
    <<"hdfc", "hdfc bank">>,
    <<"icici", "icici bank">>,
    <<"axis", "axis bank">>,
    <<"sbi", "sbi card">>,
    <<"standard chartered", "standard chartered">>,
    <<"hsbc", "hsbc">>,
    <<"kotak", "kotak mahindra bank">>,
    <<"yes", "yes">>,
    <<"indusind", "indusind">>,
    <<"citi", "citibank">>,
    <<"american express", "amex">>,
    <<"dbs", "dbs">>,
    <<"au", "au small bank">>,
    <<"capital one", "capital one">>,
    <<"wells fargo", "wells fargo">>,
    <<"chase", "chase">>,
    <<"bilt", "bilt">> >>

RECURSIVE FirstMapping(_, _)
FirstMapping(normalized, i) ==
    IF i > Len(BankMappings) THEN normalized
    ELSE IF Includes(normalized, BankMappings[i][1]) THEN BankMappings[i][2]
    ELSE FirstMapping(normalized, i + 1)

\* An absent bank name is "" (falsy)
normalizeBankName(bankName) ==
    IF bankName = "" THEN "unknown"
    ELSE FirstMapping(ToLowerCase(TrimChars(bankName)), 1)

(***************************************************************************)
(* The statement periods and bank names of the stored statements, and what *)
(* parseStatementDate and normalizeBankName return for each (both are pure;*)
(* each value is computed once).                                           *)
(***************************************************************************)

PeriodApril == <<Word("April"), Sp, Num(4, 2024)>>             \* "April 2024"
PeriodAxis ==                                    \* "20/03/2024 - 18/04/2024"
    <<Num(2, 20), Slash, Num(2, 3), Slash, Num(4, 2024), Sp, Dash, Sp,
      Num(2, 18), Slash, Num(2, 4), Slash, Num(4, 2024)>>
PeriodIso ==                                   \* "2024-04-19 to 2024-05-18"
    <<Num(4, 2024), Dash, Num(2, 4), Dash, Num(2, 19), Sp, Word("to"), Sp,
      Num(4, 2024), Dash, Num(2, 5), Dash, Num(2, 18)>>

\* The stored strings, and the tokens the periods consist of
FilterPeriods == {"April 2024", "20/03/2024 - 18/04/2024", "2024-04-19 to 2024-05-18"}

TokensOf ==
    [p \in FilterPeriods |->
        CASE p = "April 2024" -> PeriodApril
          [] p = "20/03/2024 - 18/04/2024" -> PeriodAxis
          [] OTHER -> PeriodIso]

BankNames == {"HDFC", " hdfc bank"}

ParsedDateOf == [p \in FilterPeriods |-> parseStatementDate(TokensOf[p])]
NormalizedBankOf == [b \in BankNames |-> normalizeBankName(b)]

(***************************************************************************)
(* filterLatestStatements.  A statement is a record; the input array is a  *)
(* sequence and a statement's identity (its _id, its object reference) is  *)
(* its index in the input array.  An absent cardVariant, cardNumber or     *)
(* bankName is the empty string or sequence (falsy).                       *)
(***************************************************************************)
\* Mutant of areDuplicateStatements: the file names are not compared
areDuplicateStatementsCardOnly(stmt1, stmt2) ==
    /\ stmt1.statementPeriod = stmt2.statementPeriod
    /\ stmt1.cardNumber # "" /\ stmt2.cardNumber # ""
    /\ stmt1.cardNumber = stmt2.cardNumber

areDuplicateStatements(stmt1, stmt2) ==
    LET samePeriod == stmt1.statementPeriod = stmt2.statementPeriod
        sameCard == IF stmt1.cardNumber # "" /\ stmt2.cardNumber # ""
                    THEN stmt1.cardNumber = stmt2.cardNumber
                    ELSE FALSE
        sameFilename == stmt1.fileName = stmt2.fileName
    IN  samePeriod /\ (sameCard \/ sameFilename)

\* the two keys groupStatementsByBankAndVariant files a statement under
BankKey(statement) == NormalizedBankOf[statement.bankName]
VariantKey(statement) ==
    IF statement.cardVariant = "" THEN "Unknown Variant" ELSE statement.cardVariant

\* the distinct elements of a sequence, in order of first appearance: the
\* order in which Object.entries lists keys added one by one
RECURSIVE FirstSeen(_, _)
FirstSeen(seq, acc) ==
    IF seq = <<>> THEN acc
    ELSE FirstSeen(Tail(seq),
                   IF \E k \in 1..Len(acc) : acc[k] = Head(seq) THEN acc
                   ELSE Append(acc, Head(seq)))

RECURSIVE Flatten(_)
Flatten(seqs) == IF seqs = <<>> THEN <<>> ELSE Head(seqs) \o Flatten(Tail(seqs))


\* groups[bankName][cardVariant], flattened in the order the nested
\* Object.entries loops visit them: a sequence of groups, each the sequence
\* of the indices of its statements in input order
groupStatementsByBankAndVariant(stmts) ==
    LET n == Len(stmts)
        bank == [i \in 1..n |-> BankKey(stmts[i])]
        variant == [i \in 1..n |-> VariantKey(stmts[i])]
        banks == FirstSeen(bank, <<>>)
        VariantsOf(b) ==
            LET InBank(i) == bank[i] = b
                members == SelectSeq([i \in 1..n |-> i], InBank)
                names == FirstSeen([k \in 1..Len(members) |-> variant[members[k]]], <<>>)
            IN  [k \in 1..Len(names) |->
                    LET InGroup(i) == bank[i] = b /\ variant[i] = names[k]
                    IN  SelectSeq([i \in 1..n |-> i], InGroup)]
    IN  Flatten([k \in 1..Len(banks) |-> VariantsOf(banks[k])])

\* Mutant of CompareByDateThenUpload: ascending instead of descending
CompareAscending(a, b) ==
    LET dateDiff == a.parsedDate.day - b.parsedDate.day
    IN  IF dateDiff # 0 THEN dateDiff ELSE a.uploadDate - b.uploadDate

\* the comparator of withDates.sort: negative puts a first
CompareByDateThenUpload(a, b) ==
    LET dateDiff == b.parsedDate.day - a.parsedDate.day
    IN  IF dateDiff # 0 THEN dateDiff ELSE b.uploadDate - a.uploadDate

\* Array.prototype.sort is stable: x goes before the first element that the
\* comparator puts strictly after it
RECURSIVE InsertSorted(_, _)
InsertSorted(sorted, x) ==
    IF sorted = <<>> THEN <<x>>
    ELSE IF CompareByDateThenUpload(Head(sorted), x) > 0 THEN <<x>> \o sorted
    ELSE <<Head(sorted)>> \o InsertSorted(Tail(sorted), x)

RECURSIVE SortWithDates(_, _)
SortWithDates(seq, acc) ==
    IF seq = <<>> THEN acc
    ELSE SortWithDates(Tail(seq), InsertSorted(acc, Head(seq)))

\* statementsWithDates: each statement of the group with its parsed date
StatementsWithDates(stmts, group) ==
    [k \in 1..Len(group) |->
        [statement |-> group[k],
         parsedDate |-> ParsedDateOf[stmts[group[k]].statementPeriod],
         uploadDate |-> stmts[group[k]].uploadDate]]

\* withDates: statementsWithDates.filter(s => s.parsedDate !== null)
HasDate(s) == ~s.parsedDate.isNull
WithDates(statementsWithDates) == SelectSeq(statementsWithDates, HasDate)

\* Mutant of PickLatest: null when no period of the group parses
PickLatestNullWithoutDates(group, statementsWithDates, withDates) ==
    IF Len(withDates) = 0 THEN 0
    ELSE SortWithDates(withDates, <<>>)[1].statement

\* Mutant of PickLatest: the first statement is returned as soon as one
\* period does not parse (withoutDates tested instead of withDates)
PickLatestFirstIfAnyUndated(group, statementsWithDates, withDates) ==
    IF Len(withDates) < Len(statementsWithDates) THEN group[1]
    ELSE SortWithDates(withDates, <<>>)[1].statement

\* the end of getLatestStatement: statements[0] when no date parsed,
\* otherwise the head of the sorted withDates
PickLatest(group, statementsWithDates, withDates) ==
    IF Len(withDates) = 0 THEN group[1]
    ELSE SortWithDates(withDates, <<>>)[1].statement

\* getLatestStatement(statements): group holds the indices of the statements
\* passed; the index of the one returned (0 for null).  The duplicate list
\* the function builds after sorting is only logged.
getLatestStatement(stmts, group) ==
    IF Len(group) = 0 THEN 0
    ELSE IF Len(group) = 1 THEN group[1]
    ELSE PickLatest(group, StatementsWithDates(stmts, group),
                    WithDates(StatementsWithDates(stmts, group)))

\* variantStatements.forEach: a statement that duplicates one already kept in
\* uniqueStatements goes to dupeStatements
IsDupe(stmts, stmt, uniqueStatements) ==
    \E k \in 1..Len(uniqueStatements) :
        areDuplicateStatements(stmts[stmt], stmts[uniqueStatements[k]])

RECURSIVE SplitDuplicates(_, _, _, _)
SplitDuplicates(stmts, group, uniqueStatements, dupeStatements) ==
    IF group = <<>> THEN [unique |-> uniqueStatements, dupes |-> dupeStatements]
    ELSE SplitDuplicates(stmts, Tail(group),
            IF IsDupe(stmts, Head(group), uniqueStatements) THEN uniqueStatements
            ELSE Append(uniqueStatements, Head(group)),
            IF IsDupe(stmts, Head(group), uniqueStatements)
            THEN Append(dupeStatements, Head(group))
            ELSE dupeStatements)

InSeq(x, seq) == \E k \in 1..Len(seq) : seq[k] = x

\* Mutant of GroupLists: the older records are collected without leaving
\* out the duplicates
GroupListsDupesAlsoOlder(variantStatements, dupeStatements, latestStmt) ==
    LET Older(stmt) == stmt # latestStmt
    IN  [latest |-> <<latestStmt>>,
         filtered |-> SelectSeq(variantStatements, Older),
         duplicates |-> dupeStatements]

\* what one group appends to latest, filtered and duplicates once its latest
\* statement is known
GroupLists(variantStatements, dupeStatements, latestStmt) ==
    LET Older(stmt) == stmt # latestStmt /\ ~InSeq(stmt, dupeStatements)
    IN  [latest |-> IF latestStmt # 0 THEN <<latestStmt>> ELSE <<>>,
         filtered |-> IF latestStmt # 0 THEN SelectSeq(variantStatements, Older)
                      ELSE <<>>,
         duplicates |-> dupeStatements]

\* getLatestStatement(uniqueStatements.length > 0 ? uniqueStatements
\*                                                : variantStatements)
LatestOfUnique(stmts, variantStatements, split) ==
    GroupLists(variantStatements, split.dupes,
               getLatestStatement(stmts,
                   IF Len(split.unique) > 0 THEN split.unique ELSE variantStatements))

\* the body of the loop over one (bank, variant) group
FilterGroup(stmts, variantStatements) ==
    IF Len(variantStatements) = 1
    THEN [latest |-> <<variantStatements[1]>>, filtered |-> <<>>, duplicates |-> <<>>]
    ELSE LatestOfUnique(stmts, variantStatements,
                        SplitDuplicates(stmts, variantStatements, <<>>, <<>>))

\* latest.push / filtered.push / duplicates.push, group after group
PushAll(perGroup) ==
    [latest |-> Flatten([k \in 1..Len(perGroup) |-> perGroup[k].latest]),
     filtered |-> Flatten([k \in 1..Len(perGroup) |-> perGroup[k].filtered]),
     duplicates |-> Flatten([k \in 1..Len(perGroup) |-> perGroup[k].duplicates])]

\* the nested loops over banks and variants, in Object.entries order
FilterGroups(stmts, groups) ==
    PushAll([k \in 1..Len(groups) |-> FilterGroup(stmts, groups[k])])

\* the returned object, with its summary
WithSummary(lists, totalStatements, uniqueCards) ==
    [latest |-> lists.latest, filtered |-> lists.filtered,
     duplicates |-> lists.duplicates,
     summary |-> [totalStatements |-> totalStatements,
                  uniqueCards |-> uniqueCards,
                  latestStatements |-> Len(lists.latest),
                  filteredStatements |-> Len(lists.filtered),
                  duplicates |-> Len(lists.duplicates)]]

FilterGrouped(stmts, groups) ==
    WithSummary(FilterGroups(stmts, groups), Len(stmts), Len(groups))

filterLatestStatements(stmts) ==
    IF Len(stmts) = 0
    THEN [latest |-> <<>>, filtered |-> <<>>, duplicates |-> <<>>,
          summary |-> [totalStatements |-> 0, uniqueCards |-> 0,
                       latestStatements |-> 0, filteredStatements |-> 0,
                       duplicates |-> 0]]
    ELSE FilterGrouped(stmts, groupStatementsByBankAndVariant(stmts))

(***************************************************************************)
(* Inputs of filterLatestStatements.                                       *)
(***************************************************************************)
MaxStatements == 3

\* The first card: every period, three file-name / card-number pairs ("" is
\* no card number), two upload times
MainCard ==
    {[bankName |-> "HDFC", cardVariant |-> "Infinia", statementPeriod |-> p,
      fileName |-> fc[1], cardNumber |-> fc[2], uploadDate |-> u] :
        p \in FilterPeriods,
        fc \in {<<"stmt.pdf", "">>, <<"stmt.pdf", "1234">>, <<"other.pdf", "1234">>},
        u \in {1, 2}}

\* A second card of the same bank, stored under two spellings of the bank
\* name and without a detected variant
SecondCard ==
    {[bankName |-> b, cardVariant |-> "", statementPeriod |-> p,
      fileName |-> "stmt.pdf", cardNumber |-> "", uploadDate |-> 1] :
        b \in BankNames, p \in {"April 2024", "20/03/2024 - 18/04/2024"}}

StatementDomain == MainCard \cup SecondCard

StatementLists == UNION {[1..n -> StatementDomain] : n \in 0..MaxStatements}

(***************************************************************************)
(* pdfValidator.js: isLikelyCreditCardStatement.                           *)
(*                                                                         *)
(* An extracted text is a sequence of chunks; a chunk is `fill` characters *)
(* that occur in no indicator (digits, line breaks) followed by the        *)
(* string `chars`.  slice, toLowerCase, length and includes are computed   *)
(* on that representation.                                                 *)
(***************************************************************************)
STATEMENT_INDICATORS ==
    [required |-> <<"credit card", "card account", "card number", "billing cycle",
                    "statement period", "payment due", "minimum payment">>,
     bankNames |-> <<"hdfc bank", "icici bank", "axis bank", "state bank", "sbi card",
                     "kotak mahindra", "yes bank", "indusind", "standard chartered",
                     "citibank", "hsbc", "american express", "rbl bank", "idfc first",
                     "au small finance", "chase", "bank of america", "wells fargo",
                     "capital one", "discover">>,
     positive |-> <<"reward points", "cashback", "credit limit", "available credit",
                    "total amount due", "outstanding balance", "transaction details",
                    "account summary">>,
     negative |-> <<"invoice", "purchase order", "delivery note", "tax invoice",
                    "pro forma", "quotation", "estimate">>]

\* pdfText.length
RECURSIVE TextLength(_)
TextLength(text) ==
    IF text = <<>> THEN 0
    ELSE Head(text).fill + Len(Head(text).chars) + TextLength(Tail(text))

\* pdfText.slice(0, maxChars)
RECURSIVE Slice(_, _)
Slice(text, maxChars) ==
    IF text = <<>> \/ maxChars <= 0 THEN <<>>
    ELSE IF Head(text).fill >= maxChars
    THEN <<[fill |-> maxChars, chars |-> ""]>>
    ELSE IF Head(text).fill + Len(Head(text).chars) >= maxChars
    THEN <<[fill |-> Head(text).fill,
            chars |-> SubSeq(Head(text).chars, 1, maxChars - Head(text).fill)]>>
    ELSE <<Head(text)>>
         \o Slice(Tail(text), maxChars - Head(text).fill - Len(Head(text).chars))

\* text.toLowerCase()
TextToLowerCase(text) ==
    [i \in 1..Len(text) |-> [fill |-> text[i].fill, chars |-> ToLowerCase(text[i].chars)]]

\* the letters that follow position i without a fill character in between
RECURSIVE RunFrom(_, _)
RunFrom(text, i) ==
    IF i < Len(text) /\ text[i + 1].fill = 0
    THEN text[i].chars \o RunFrom(text, i + 1)
    ELSE text[i].chars

\* sample.includes(indicator)
TextIncludes(text, indicator) ==
    \E i \in 1..Len(text) : Includes(RunFrom(text, i), indicator)

QuickSampleChars == 2000
MinSampleLength == 100

\* getQuickSample(pdfText, maxChars); the empty text is <<>> (falsy)
getQuickSample(text, maxChars) ==
    IF text = <<>> THEN <<>> ELSE TextToLowerCase(Slice(text, maxChars))

\* indicators.some(...): the position of the first indicator found, 0 for none
RECURSIVE FirstMatch(_, _, _)
FirstMatch(sample, indicators, i) ==
    IF i > Len(indicators) THEN 0
    ELSE IF TextIncludes(sample, indicators[i]) THEN i
    ELSE FirstMatch(sample, indicators, i + 1)

\* positive.forEach(...): every positive indicator found, in list order
PositiveMatches(sample) ==
    LET Found(indicator) == TextIncludes(sample, indicator)
    IN  SelectSeq(STATEMENT_INDICATORS.positive, Found)

\* Mutant of Tier: the medium tier starts at 4
TierMediumFromFour(score, hasNegative) ==
    IF score >= 5 /\ ~hasNegative THEN [confidence |-> "high", isStatement |-> TRUE]
    ELSE IF score >= 4 /\ ~hasNegative THEN [confidence |-> "medium", isStatement |-> TRUE]
    ELSE IF score >= 1 THEN [confidence |-> "low", isStatement |-> TRUE]
    ELSE [confidence |-> "low", isStatement |-> FALSE]

\* "Determine confidence"
Tier(score, hasNegative) ==
    IF score >= 5 /\ ~hasNegative THEN [confidence |-> "high", isStatement |-> TRUE]
    ELSE IF score >= 3 /\ ~hasNegative THEN [confidence |-> "medium", isStatement |-> TRUE]
    ELSE IF score >= 1 THEN [confidence |-> "low", isStatement |-> TRUE]
    ELSE [confidence |-> "low", isStatement |-> FALSE]

\* the returned object of the scored path
Verdict(tier, score, matches, hasBankName) ==
    [isStatement |-> tier.isStatement, confidence |-> tier.confidence,
     score |-> score, matches |-> matches, hasBankName |-> hasBankName]

\* the scoring, given the positions of the first required, bank-name and
\* negative indicators found and the positive indicators found
Scored(required, bank, positives, negative) ==
    Verdict(Tier(3 + (IF bank # 0 THEN 2 ELSE 0) + Len(positives)
                   - (IF negative # 0 THEN 5 ELSE 0),
                 negative # 0),
            3 + (IF bank # 0 THEN 2 ELSE 0) + Len(positives)
              - (IF negative # 0 THEN 5 ELSE 0),
            <<STATEMENT_INDICATORS.required[required]>>
              \o (IF bank # 0 THEN <<STATEMENT_INDICATORS.bankNames[bank]>> ELSE <<>>)
              \o positives,
            bank # 0)

ClassifySample(sample) ==
    IF sample = <<>> \/ TextLength(sample) < MinSampleLength
    THEN [isStatement |-> FALSE, confidence |-> "low",
          reason |-> "Insufficient text extracted"]
    ELSE IF FirstMatch(sample, STATEMENT_INDICATORS.required, 1) = 0
    THEN [isStatement |-> FALSE, confidence |-> "high",
          reason |-> "No credit card statement keywords found", matches |-> <<>>]
    ELSE Scored(FirstMatch(sample, STATEMENT_INDICATORS.required, 1),
                FirstMatch(sample, STATEMENT_INDICATORS.bankNames, 1),
                PositiveMatches(sample),
                FirstMatch(sample, STATEMENT_INDICATORS.negative, 1))

isLikelyCreditCardStatement(text) ==
    ClassifySample(getQuickSample(text, QuickSampleChars))

(***************************************************************************)
(* Extracted texts: `lead` fill characters, then some of the phrases below,*)
(* one fill character apart, as printed (capitalised) or in lower case,    *)
(* in the order of the list or in the reverse order.                       *)
(***************************************************************************)
Phrases ==
    <<"Credit Card", "Payment Due", "HDFC Bank", "Chase", "Reward Points",
      "Cashback", "Credit Limit", "Tax Invoice", "Quotation">>

Leads == {0, 60, 100, 1960}

RECURSIVE Reverse(_)
Reverse(seq) == IF seq = <<>> THEN <<>> ELSE Append(Reverse(Tail(seq)), Head(seq))

PickedPhrases(picks, reversed) ==
    LET Picked(i) == i \in picks
        chosen == SelectSeq([i \in 1..Len(Phrases) |-> i], Picked)
    IN  IF reversed THEN Reverse(chosen) ELSE chosen

ComposeText(lead, picks, lower, reversed) ==
    LET order == PickedPhrases(picks, reversed)
        Written(i) == IF lower THEN ToLowerCase(Phrases[i]) ELSE Phrases[i]
    IN  IF order = <<>>
        THEN IF lead = 0 THEN <<>> ELSE <<[fill |-> lead, chars |-> ""]>>
        ELSE [k \in 1..Len(order) |->
                [fill |-> IF k = 1 THEN lead ELSE 1, chars |-> Written(order[k])]]

ExtractedTexts ==
    {ComposeText(lead, picks, lower, reversed) :
        lead \in Leads, picks \in SUBSET (1..Len(Phrases)),
        lower \in BOOLEAN, reversed \in BOOLEAN}

(***************************************************************************)
(* gmailService.js: processEmail.                                          *)
(***************************************************************************)
BANK_DOMAINS ==
    <<"hdfcbank.com", "hdfcbank.net", "icicibank.com", "sbi.co.in", "onlinesbi.com",
      "sbicard.com", "axisbank.com", "kotak.com", "yesbank.in", "indusind.com",
      "sc.com", "standardchartered.com", "citi.com", "citibank.com", "hsbc.co.in",
      "hsbc.com", "rbl.co.in", "rblbank.com", "idfcfirstbank.com", "aubank.in",
      "americanexpress.com", "aexp.com", "bobfinancial.com", "bankofbaroda.com",
      "pnbcards.com", "chase.com", "bankofamerica.com", "wellsfargo.com",
      "capitalone.com", "discover.com", "barclays.com", "visa.com", "mastercard.com">>

BANK_KEYWORDS ==
    <<"credit card", "statement", "e-statement", "estatement", "card statement",
      "billing statement", "account summary", "reward points", "payment due",
      "monthly statement", "statement of account", "billing cycle", "credit limit",
      "total amount due", "minimum payment">>

\* list.some(entry => text.includes(entry))
SomeIncluded(text, list) == \E i \in 1..Len(list) : Includes(text, list[i])

isFromBankDomain(fromEmail) ==
    IF fromEmail = "" THEN FALSE
    ELSE SomeIncluded(ToLowerCase(fromEmail), BANK_DOMAINS)

containsBankKeywords(text) ==
    IF text = "" THEN FALSE
    ELSE SomeIncluded(ToLowerCase(text), BANK_KEYWORDS)

\* headers.find(h => h.name === ...)?.value || default; an absent header is ""
HeaderOr(value, default) == IF value = "" THEN default ELSE value

\* from.match(/@([^\s>]+)/)?.[1]?.toLowerCase() || ''
DomainChar(c) == c # " " /\ c # ">"

RECURSIVE TakeDomain(_, _)
TakeDomain(from, i) ==
    IF i <= Len(from) /\ DomainChar(CharAt(from, i))
    THEN CharAt(from, i) \o TakeDomain(from, i + 1)
    ELSE ""

RECURSIVE MatchDomain(_, _)
MatchDomain(from, i) ==
    IF i >= Len(from) THEN ""
    ELSE IF CharAt(from, i) = "@" /\ DomainChar(CharAt(from, i + 1))
    THEN TakeDomain(from, i + 1)
    ELSE MatchDomain(from, i + 1)

SenderDomain(from) == ToLowerCase(MatchDomain(from, 1))

\* Mutant of DecisionLogic: the body is not searched for keywords
DecisionLogicSubjectOnly(from, subject, body) ==
    IF isFromBankDomain(from)
    THEN [shouldProcess |-> TRUE, decisionCase |-> "Case 1",
          reason |-> "Known bank domain"]
    ELSE IF containsBankKeywords(subject)
    THEN [shouldProcess |-> TRUE, decisionCase |-> "Case 2",
          reason |-> "Bank keywords in subject  "]
    ELSE [shouldProcess |-> FALSE, decisionCase |-> "", reason |-> ""]

\* "DECISION LOGIC": Case 1 and Case 2 are decided from the headers and the
\* body; otherwise (Case 3) nothing is decided before the first PDF is read
DecisionLogic(from, subject, body) ==
    IF isFromBankDomain(from)
    THEN [shouldProcess |-> TRUE, decisionCase |-> "Case 1",
          reason |-> "Known bank domain"]
    ELSE IF containsBankKeywords(subject) \/ containsBankKeywords(body)
    THEN [shouldProcess |-> TRUE, decisionCase |-> "Case 2",
          reason |-> "Bank keywords in "
                     \o (IF containsBankKeywords(subject) THEN "subject" ELSE "")
                     \o " "
                     \o (IF containsBankKeywords(subject) /\ containsBankKeywords(body)
                         THEN "and" ELSE "")
                     \o " "
                     \o (IF containsBankKeywords(body) THEN "body" ELSE "")]
    ELSE [shouldProcess |-> FALSE, decisionCase |-> "", reason |-> ""]

MinPdfTextLength == 100

\* Mutant of AnalysisOfVerdict: the confidence is taken for the verdict
AnalysisOfVerdictByConfidence(validation) ==
    [isBankRelated |-> validation.confidence = "high",
     confidence |-> validation.confidence,
     score |-> IF "score" \in DOMAIN validation THEN <<validation.score>> ELSE <<>>,
     reason |-> IF "reason" \in DOMAIN validation THEN validation.reason
                ELSE "Content analysis"]

\* the object analyzePDFContent builds from the validator's verdict
\* (score is <<>> when the verdict has none; pdfData is left out)
AnalysisOfVerdict(validation) ==
    [isBankRelated |-> validation.isStatement,
     confidence |-> validation.confidence,
     score |-> IF "score" \in DOMAIN validation THEN <<validation.score>> ELSE <<>>,
     reason |-> IF "reason" \in DOMAIN validation THEN validation.reason
                ELSE "Content analysis"]

\* analyzePDFContent once parsePDF has returned pdfData (text: chunks)
AnalysisOfText(text) ==
    IF text = <<>> \/ TextLength(text) < MinPdfTextLength
    THEN [isBankRelated |-> FALSE, reason |-> "Insufficient text in PDF"]
    ELSE AnalysisOfVerdict(isLikelyCreditCardStatement(text))

\* analyzePDFContent when parsePDF throws (the cause is the parser's)
AnalysisFailed ==
    [isBankRelated |-> FALSE,
     reason |-> "PDF analysis failed: Failed to parse PDF: unreadable"]

\* The PDFs of the mailbox, by content, and the text parsePDF extracts from
\* each when it does not throw
PdfContents == {"statement", "invoice", "letter", "note", "blank"}

PdfTextOf ==
    [c \in PdfContents |->
        CASE c = "statement" -> ComposeText(100, {1, 3, 5}, FALSE, FALSE)
          [] c = "invoice"   -> ComposeText(100, {1, 8}, FALSE, FALSE)
          [] c = "letter"    -> ComposeText(100, {}, FALSE, FALSE)
          [] c = "note"      -> ComposeText(60, {1}, FALSE, FALSE)
          [] OTHER           -> <<>>]

AnalysisOf == [c \in PdfContents |-> AnalysisOfText(PdfTextOf[c])]

\* The messages of the mailbox.  An absent header is "".
Senders ==
    {"statements@hdfcbank.com", "HDFC Bank <Alerts@HDFCBank.net>",
     "Shop <billing@shop.example>", "friend@mail.example", ""}
Subjects == {"Your Credit Card Statement", "Order 42", ""}
Bodies == {"Your monthly e-statement is attached.", "See attached.", ""}

MaxAttachments == 2

AttachmentLists == UNION {[1..n -> PdfContents] : n \in 0..MaxAttachments}

Messages ==
    [from : Senders, subject : Subjects, date : {"Tue, 05 Nov 2024 10:00:00 +0530"},
     body : Bodies, pdfs : AttachmentLists]

\* pdfAttachments[k], as findPDFs collects it
PdfAttachment(k) == [filename |-> email.pdfs[k] \o ".pdf", attachmentId |-> k]

\* the file downloadAttachment writes for pdfAttachments[k]: its name carries
\* Date.now(), so every fetch writes files of its own
FileId(k) == fetch.fetched * (MaxAttachments + 1) + k

\* the objects processEmail returns
ErrorResult(message) ==
    [skipped |-> TRUE, reason |-> "Error: " \o message, messageId |-> "m1",
     error |-> message]

SkippedResult(msg, why) ==
    [skipped |-> TRUE, reason |-> why, messageId |-> "m1",
     subject |-> HeaderOr(msg.subject, "No Subject"),
     from |-> HeaderOr(msg.from, "Unknown")]

RejectedResult(msg, why) ==
    [skipped |-> TRUE, reason |-> why, messageId |-> "m1",
     subject |-> HeaderOr(msg.subject, "No Subject"),
     from |-> HeaderOr(msg.from, "Unknown"), decisionCase |-> "Rejected"]

AcceptedResult(msg, case, why, attachments) ==
    [skipped |-> FALSE, decisionCase |-> case, reason |-> why, messageId |-> "m1",
     subject |-> HeaderOr(msg.subject, "No Subject"),
     from |-> HeaderOr(msg.from, "Unknown"), date |-> msg.date,
     senderDomain |-> SenderDomain(HeaderOr(msg.from, "Unknown")),
     attachments |-> attachments]

(***************************************************************************)
(* Reward points of a statement record: controllers/statementController.js *)
(* (uploadStatement) and controllers/gmailController.js                    *)
(* (fetchStatementsFromGmail) build statement.rewardPoints from the        *)
(* parsed JSON response of the model.  A JavaScript value is a record      *)
(* with its type t and, but for undefined and null, its value v; an        *)
(* object's v is the function from its own keys to their values.           *)
(***************************************************************************)
JsUndefined == [t |-> "undefined"]
JsNull == [t |-> "null"]
JsNumber(n) == [t |-> "number", v |-> n]
JsString(str) == [t |-> "string", v |-> str]
JsArray(items) == [t |-> "array", v |-> items]
JsObject(props) == [t |-> "object", v |-> props]

\* obj.key
Get(obj, key) ==
    IF obj.t = "object" /\ key \in DOMAIN obj.v THEN obj.v[key] ELSE JsUndefined

\* a ?? b
NullishCoalesce(a, b) == IF a.t \in {"undefined", "null"} THEN b ELSE a

Truthy(a) ==
    CASE a.t \in {"undefined", "null"} -> FALSE
      [] a.t = "number" -> a.v # 0
      [] a.t = "string" -> a.v # ""
      [] OTHER -> TRUE

\* a || b
LogicalOr(a, b) == IF Truthy(a) THEN a ELSE b

ArrayIsArray(a) == a.t = "array"

\* const rp = groqResult.rewardPoints || {}
RewardPointsOrEmpty(response) == LogicalOr(Get(response, "rewardPoints"), JsObject(<<>>))

\* statement.rewardPoints = { opening: rp.opening ?? null, ... }
StatementRewardPoints(rp) ==
    [opening |-> NullishCoalesce(Get(rp, "opening"), JsNull),
     earned |-> NullishCoalesce(Get(rp, "earned"), JsNull),
     redeemed |-> NullishCoalesce(Get(rp, "redeemed"), JsNull),
     adjustedLapsed |-> NullishCoalesce(Get(rp, "adjustedLapsed"), JsNull),
     closing |-> NullishCoalesce(Get(rp, "closing"), JsNull),
     breakdown |-> IF ArrayIsArray(Get(rp, "breakdown"))
                   THEN Get(rp, "breakdown") ELSE JsNull]

\* ---- the responses the model is run on ----
NumericKeys == {"opening", "earned", "redeemed", "adjustedLapsed", "closing"}
\* a key the response leaves out
Missing == [t |-> "missing"]
NumericValues == {Missing, JsNull, JsNumber(0), JsNumber(500)}
Breakdowns ==
    {Missing, JsNull, JsArray(<<>>),
     JsArray(<<[category |-> "dining", points |-> 100]>>), JsString("none")}
\* the object with the keys of f that are not left out
ObjectOf(f) == JsObject([k \in {x \in DOMAIN f : f[x].t # "missing"} |-> f[k]])
ModelRewardPoints ==
    {ObjectOf(n @@ ("breakdown" :> b)) : n \in [NumericKeys -> NumericValues],
                                         b \in Breakdowns}
GroqResults ==
    {JsObject([rewardPoints |-> r]) : r \in ModelRewardPoints}
        \cup {JsObject(<<>>), JsObject([rewardPoints |-> JsNull])}
\* what the statement prints for the two labels (JsNull: the label is absent)
StatedPoints ==
    {[adjustedLapsed |-> JsNull, closing |-> JsNumber(500)],
     [adjustedLapsed |-> JsNumber(0), closing |-> JsNumber(500)],
     [adjustedLapsed |-> JsNumber(500), closing |-> JsNumber(500)]}

(***************************************************************************)
(* The Statement collection (models/Statement.js) and uploadStatement      *)
(* (controllers/statementController.js).  A document of the collection is  *)
(* a record; store[id] is the document saved under _id = id.               *)
(***************************************************************************)
UserId == "user-1"

\* new Statement({userId, fileName, processingStatus: 'processing', ...})
NewStatement(fileName, source, gmailMessageId) ==
    [userId |-> UserId, fileName |-> fileName, source |-> source,
     gmailMessageId |-> gmailMessageId, processingStatus |-> "processing",
     errorMessage |-> "", rawExtractedText |-> <<>>, rewardPoints |-> <<>>,
     aiResponse |-> <<>>]

\* validateExtractedData(data): data is the parsed JSON value
validateExtractedData(data) ==
    IF data.t \notin {"object", "array"}
    THEN [valid |-> FALSE, error |-> "Invalid data structure"]
    ELSE IF ~Truthy(Get(data, "rewardPoints"))
         THEN [valid |-> FALSE, error |-> "Missing reward points data"]
         ELSE [valid |-> TRUE]

\* statement.rewardPoints = {...}; statement.aiResponse = groqResult;
\* statement.processingStatus = 'completed'
Completed(statement, response) ==
    [statement EXCEPT
        !.rewardPoints = <<StatementRewardPoints(RewardPointsOrEmpty(response))>>,
        !.aiResponse = <<response>>,
        !.processingStatus = "completed"]

\* the file multer wrote for the request
UploadedFile == 0

\* the responses extractRewardPoints returns in the pipelines
PipelineResponses ==
    {JsObject([rewardPoints |->
                  JsObject([opening |-> JsNumber(0), earned |-> JsNumber(500),
                            closing |-> JsNumber(500)])]),
     JsObject([rewardPoints |-> JsObject([breakdown |-> JsArray(<<>>)])]),
     JsObject([rewardPoints |-> JsNull]),
     JsObject(<<>>)}

\* the collection before the request: empty, or holding a completed manual
\* upload of a file of the same name
EarlierUpload ==
    Completed(NewStatement("statement.pdf", "manual", ""),
              JsObject([rewardPoints |-> JsObject([closing |-> JsNumber(500)])]))
InitialStores == {<<>>, <<EarlierUpload>>}

\* req.file: the content of the uploaded PDF, or "none" without a file
UploadFiles == PdfContents \cup {"none"}

NoUpload ==
    [pc |-> "idle", file |-> "none", id |-> 0, statement |-> <<>>, pdfData |-> <<>>,
     error |-> <<>>, response |-> <<>>]

(***************************************************************************)
(* fetchStatementsFromGmail (controllers/gmailController.js, the version   *)
(* of the decision flow) over fetchAllStatements (services/gmailService.js)*)
(***************************************************************************)
MaxFetches == 2

\* results.push({...}) of fetchAllStatements for the attachment att of a
\* message that was not skipped (content: what the file holds)
ResultOf(res, att) ==
    [messageId |-> res.messageId,
     file |-> [filePath |-> att.downloadedFile,
               originalFilename |-> att.attachment.filename],
     decisionCase |-> res.decisionCase,
     pdfAnalysis |-> IF "analysis" \in DOMAIN att THEN <<att.analysis>> ELSE <<>>,
     content |-> email.pdfs[att.attachment.attachmentId]]

\* result.statements for the one message of the mailbox
StatementsOf(res) ==
    IF res.skipped THEN <<>>
    ELSE [k \in 1..Len(res.attachments) |-> ResultOf(res, res.attachments[k])]

\* Mutant of Existing: only completed documents are looked up
ExistingCompleted(docs, stmt) ==
    {id \in DOMAIN docs :
        /\ docs[id].userId = UserId
        /\ docs[id].fileName = stmt.file.originalFilename
        /\ docs[id].gmailMessageId = stmt.messageId
        /\ docs[id].processingStatus = "completed"}

\* Statement.findOne({userId, fileName, 'metadata.gmailMessageId'}): the
\* matching documents
Existing(docs, stmt) ==
    {id \in DOMAIN docs :
        /\ docs[id].userId = UserId
        /\ docs[id].fileName = stmt.file.originalFilename
        /\ docs[id].gmailMessageId = stmt.messageId}

Min(S) == CHOOSE x \in S : \A y \in S : x <= y

\* Statement.findOneAndUpdate(filter, {processingStatus: 'failed', errorMessage})
MarkFailed(docs, stmt, message) ==
    IF Existing(docs, stmt) = {} THEN docs
    ELSE [docs EXCEPT ![Min(Existing(docs, stmt))] =
              [@ EXCEPT !.processingStatus = "failed", !.errorMessage = message]]

\* res.json({... processed, failed, duplicates ...})
Summary(f) ==
    [status |-> 200, processed |-> Len(f.processed), failed |-> Len(f.failed),
     duplicates |-> Len(f.duplicates)]

\* Mutant of Continue: the loop ends at the first document that failed
ContinueUnlessFailed(f) ==
    IF f.i < Len(f.statements) /\ f.failed = <<>>
    THEN [f EXCEPT !.pc = "findOne", !.i = f.i + 1, !.id = 0, !.statement = <<>>,
                   !.pdfData = <<>>, !.error = <<>>]
    ELSE [f EXCEPT !.pc = "done", !.response = <<Summary(f)>>]

\* the end of one iteration: the next document, or the final summary
Continue(f) ==
    IF f.i < Len(f.statements)
    THEN [f EXCEPT !.pc = "findOne", !.i = f.i + 1, !.id = 0, !.statement = <<>>,
                   !.pdfData = <<>>, !.error = <<>>]
    ELSE [f EXCEPT !.pc = "done", !.response = <<Summary(f)>>]

\* catch (error) of the loop body: failed.push({filename, error, subject})
Caught(f, message) ==
    [f EXCEPT !.pc = "findOneAndUpdate", !.error = <<message>>,
              !.failed = Append(f.failed, [i |-> f.i, error |-> message])]

NoFetch ==
    [pc |-> "idle", fetched |-> 0, statements |-> <<>>, i |-> 0, id |-> 0,
     statement |-> <<>>, pdfData |-> <<>>, error |-> <<>>, processed |-> <<>>,
     failed |-> <<>>, duplicates |-> <<>>, response |-> <<>>,
     before |-> 0, looked |-> {}, validated |-> {}, extracted |-> {}]

\* the messages the fetch is run on
FetchContents == {"statement", "letter"}
FetchMessages ==
    {msg \in Messages :
        /\ msg.from \in {"statements@hdfcbank.com", "friend@mail.example"}
        /\ msg.subject \in {"Your Credit Card Statement", "Order 42"}
        /\ msg.body = "See attached."
        /\ \A k \in DOMAIN msg.pdfs : msg.pdfs[k] \in FetchContents}

\* the responses extractRewardPoints returns in a fetch
FetchResponses ==
    {JsObject([rewardPoints |-> JsObject([closing |-> JsNumber(500)])]),
     JsObject(<<>>)}

(***************************************************************************)
(* fetchStatementsFromGmail requests of one user that overlap: each is at  *)
(* the iteration of the loop for the same document of the mailbox.         *)
(***************************************************************************)
MaxOverlap == 2

\* the document of result.statements the requests are at
OverlapDocument ==
    [messageId |-> "msg-1", file |-> [originalFilename |-> "statement.pdf"]]

\* Mutant of Insert: a unique index on the lookup key refuses a second record
InsertUnique(docs, doc) ==
    IF \E id \in DOMAIN docs :
           /\ docs[id].userId = doc.userId
           /\ docs[id].fileName = doc.fileName
           /\ docs[id].gmailMessageId = doc.gmailMessageId
    THEN docs
    ELSE Append(docs, doc)

\* statement.save() of a new document: the indexes of the schema are not
\* unique, the document is inserted whatever the collection holds
Insert(docs, doc) == Append(docs, doc)

\* a request before its lookup
NoRequest == [pc |-> "findOne", id |-> 0, error |-> <<>>]

(***************************************************************************)
(* parsePDF (services/pdfParser.js) with isPDFScanned, convertPDFToImages  *)
(* and cleanupImages (services/pdfValidator.js) and performOCR,          *)
(* performAdaptiveOCR and performOCROnMultipleImages                       *)
(* (services/ocrService.js).  A page is the sequence of its text items; an *)
(* item is the length of its string and the number of its characters       *)
(* outside \x20-\x7E (the string neither starts nor ends with white       *)
(* space).  A text is known by its lengths.                                *)
(***************************************************************************)
MaxPages == 2

RECURSIVE SumOver(_, _)
\* the sum of the lengths written for the items from position k on
SumOver(page, k) ==
    IF k > Len(page) THEN 0 ELSE page[k].len + 1 + SumOver(page, k + 1)

RECURSIVE BadOver(_, _)
BadOver(page, k) ==
    IF k > Len(page) THEN 0 ELSE page[k].bad + BadOver(page, k + 1)

RECURSIVE RawLength(_, _)
\* text.length after the forEach: item.str + ' ' per item, '\n' per page
RawLength(pages, p) ==
    IF p > Len(pages) THEN 0
    ELSE SumOver(pages[p], 1) + 1 + RawLength(pages, p + 1)

RECURSIVE BadCount(_, _)
\* the characters of text outside \x20-\x7E: those of the items and the '\n'
BadCount(pages, p) ==
    IF p > Len(pages) THEN 0
    ELSE BadOver(pages[p], 1) + 1 + BadCount(pages, p + 1)

NonEmptyPages(pages) == {p \in DOMAIN pages : pages[p] # <<>>}

Max(S) == CHOOSE x \in S : \A y \in S : x >= y

\* text.trim().length: the '\n' of the leading empty pages, and the ' ' of
\* the last item with the '\n' of its page and of the pages after it, go
TrimLength(pages) ==
    IF NonEmptyPages(pages) = {} THEN 0
    ELSE RawLength(pages, 1) - (Min(NonEmptyPages(pages)) - 1)
             - 1 - (Len(pages) - Max(NonEmptyPages(pages)) + 1)

\* the text parsePDF builds from data.pages
ExtractedText(pages) ==
    [raw |-> RawLength(pages, 1), trimmed |-> TrimLength(pages),
     bad |-> BadCount(pages, 1)]

\* Mutant of isPDFScanned: the text density is not looked at
isPDFScannedByLengthOnly(extracted, numPages) ==
    \/ extracted.raw = 0
    \/ extracted.trimmed < 100
    \/ 10 * extracted.bad > 3 * extracted.raw

\* isPDFScanned(extracted, {numPages}); textDensity = trimmed / (numPages || 1)
\* < 200, gibberishRatio = bad / raw > 0.3
isPDFScanned(extracted, numPages) ==
    \/ extracted.raw = 0
    \/ extracted.trimmed < 100
    \/ extracted.trimmed < 200 * (IF numPages = 0 THEN 1 ELSE numPages)
    \/ 10 * extracted.bad > 3 * extracted.raw

\* the object parsePDF returns on the direct path
DirectResult(extracted, numPages) ==
    [text |-> [length |-> extracted.trimmed], numPages |-> numPages,
     isScanned |-> FALSE, extractionMethod |-> "direct"]

\* the temporary files: the image of page k, and its preprocessed copy
PageImage(k) == <<"page", k>>
ProcessedCopy(k) == <<"processed", k>>

RECURSIVE CombinedLength(_, _)
\* combinedText: '\n--- Page i ---\n' + text + '\n' for every page
CombinedLength(results, k) ==
    IF k > Len(results) THEN 0
    ELSE 17 + results[k].length + CombinedLength(results, k + 1)

\* performOCROnMultipleImages: text: combinedText.trim()
MultiPageText(results) == [length |-> CombinedLength(results, 1) - 2]

\* the object parsePDFWithOCR returns (the confidence: per page)
OcrResult(text, pages) ==
    [text |-> text, numPages |-> Len(pages), isScanned |-> TRUE,
     extractionMethod |-> "ocr", ocrPages |-> pages]

\* Mutant of Better: the latest result is kept
Latest(best, new) == new

\* performAdaptiveOCR: the better of bestResult and the new result
Better(best, new) == IF new.confidence > best.confidence THEN new ELSE best

NoParse ==
    [pc |-> "idle", text |-> <<>>, imagePaths |-> <<>>, page |-> 0, attempt |-> 0,
     copy |-> <<>>, best |-> <<>>, results |-> <<>>, error |-> <<>>, result |-> <<>>,
     attempts |-> <<>>]

\* ---- the files parsePDF is run on ----
ItemKinds ==
    {[len |-> 60, bad |-> 0], [len |-> 150, bad |-> 0], [len |-> 450, bad |-> 0],
     [len |-> 450, bad |-> 200]}
PageContents ==
    {<<>>} \cup {<<it>> : it \in ItemKinds}
           \cup {<<[len |-> 60, bad |-> 0], [len |-> 60, bad |-> 0]>>}
PdfFiles == UNION {[1..n -> PageContents] : n \in 0..MaxPages}

\* what worker.recognize returns for an image
Confidences == {50, 65, 80}
OcrLengths == {5, 400}
Recognitions == [confidence : Confidences, length : OcrLengths]

(***************************************************************************)
(* detectCardVariant (services/statementFilter.js).  A score is the pair   *)
(* <<numerator, denominator>> of the number the code computes.             *)
(***************************************************************************)
\* the dictionary, in the order written ("Prive" is written with an accent
\* in the source)
BANK_CARD_VARIANTS ==
    ("SBI" :> <<"Air India Signature", "Etihad Guest Premier",
          "Air India Platinum", "Krisflyer SBI Apex", "Aurum",
          "Club Vistara", "Miles Elite", "Krisflyer SBI", "Miles",
          "Club Vistara Prime", "Etihad Guest", "Miles Prime">>) @@
    ("AXIS" :> <<"Rewards", "Horizon", "Primus", "Vistara",
          "Indian Oil Premium", "Vistara Infinite", "Olympus",
          "Magnus for Burgundy", "Magnus", "Burgundy Private - One Card",
          "Burgundy Private NRI", "Atlas", "Vistara Signature",
          "Miles & More", "Reserve">>) @@
    ("AMEX" :> <<"Centurion", "Membership Rewards", "Platinum", "Gold",
          "Green", "EveryDay Preferred", "Business Gold",
          "Business Green Rewards", "SmartEarn", "EveryDay",
          "Business Platinum", "Platinum Travel", "Platinum Reserve",
          "Blue Business Plus">>) @@
    ("IndusInd" :> <<"Indulge", "Iconia", "Pioneer Legacy", "Tiger",
          "Legend", "Crest", "Celesta", "Pinnacle", "Avios Visa Infinite",
          "Club Vistara Explorer", "Pioneer Heritage">>) @@
    ("ICICI" :> <<"Emirates Skywards Sapphiro", "Emirates Skywards Rubyx",
          "Times Black", "Emeralde Private Metal", "Rubyx - Visa", "Coral",
          "Rubyx - Mastercard", "Emirates Skywards Emeralde",
          "Sapphiro - Visa">>) @@
    ("HSBC" :> <<"TravelOne", "RuPay Platinum", "Platinum", "Prive",
          "Premier">>) @@
    ("Kotak Mahindra Bank" :> <<"Solitaire", "Kotak Air+">>) @@
    ("DBS" :> <<"Vantage">>) @@
    ("AU Small Bank" :> <<"AU Zenith+">>) @@
    ("HDFC" :> <<"Biz Black Metal Edition", "Diners Club Black", "Infinia">>) @@
    ("Citibank" :> <<"ThankYou Preferred", "Double Cash", "Custom Cash",
          "Rewards+", "AT&T Access", "AT&T Access More", "Premier",
          "Prestige">>) @@
    ("Capital One" :> <<"Venture X Rewards", "Spark Miles for Business",
          "Spark Miles Select for Business", "VentureOne Rewards",
          "Venture Rewards">>) @@
    ("Wells Fargo" :> <<"Autograph", "Autograph Journey">>) @@
    ("Chase" :> <<"Ink Business Cash", "Sapphire Reserve", "Freedom Flex",
          "Reserve", "Sapphire Preferred", "Ink Business Preferred",
          "Ink Business Unlimited", "Freedom Unlimited">>) @@
    ("Bilt" :> <<"Bilt">>)

\* the mapping object of getBankVariantsKey
BankVariantsKeys == <<
    <<"hdfc bank", "HDFC">>, <<"icici bank", "ICICI">>, <<"axis bank", "AXIS">>,
    <<"sbi card", "SBI">>, <<"amex", "AMEX">>, <<"yes", "YES">>,
    <<"indusind", "IndusInd">>, <<"citibank", "Citibank">>,
    <<"standard chartered", "Standard Chartered">>, <<"hsbc", "HSBC">>,
    <<"kotak mahindra bank", "Kotak Mahindra Bank">>, <<"dbs", "DBS">>,
    <<"au small bank", "AU Small Bank">>, <<"capital one", "Capital One">>,
    <<"wells fargo", "Wells Fargo">>, <<"chase", "Chase">>, <<"bilt", "Bilt">> >>

\* mapping[normalizedBankName] || null; null is ""
getBankVariantsKey(normalizedBankName) ==
    IF \E i \in DOMAIN BankVariantsKeys : BankVariantsKeys[i][1] = normalizedBankName
    THEN BankVariantsKeys[CHOOSE i \in DOMAIN BankVariantsKeys :
                              BankVariantsKeys[i][1] = normalizedBankName][2]
    ELSE ""

\* str.split(/\s+/) from position i on, word being the characters read
\* since the last run of spaces
RECURSIVE SplitFrom(_, _, _)
SplitFrom(str, i, word) ==
    IF i > Len(str) THEN <<word>>
    ELSE IF CharAt(str, i) # " " THEN SplitFrom(str, i + 1, word \o CharAt(str, i))
    ELSE IF i < Len(str) /\ CharAt(str, i + 1) = " " THEN SplitFrom(str, i + 1, word)
    ELSE <<word>> \o SplitFrom(str, i + 1, "")

SplitWords(str) == SplitFrom(str, 1, "")

\* variantWords.filter(word => word.length > 2 && textLower.includes(word))
MatchedWords(variantWords, textLower) ==
    LET Matched(word) == Len(word) > 2 /\ Includes(textLower, word)
    IN  SelectSeq(variantWords, Matched)

\* the callback of variants.map
VariantScore(variant, variantLower, textLower) ==
    IF Includes(textLower, variantLower)
    THEN [variant |-> variant, score |-> <<100, 1>>]
    ELSE IF Len(MatchedWords(SplitWords(variantLower), textLower)) > 0
    THEN [variant |-> variant,
          score |-> <<Len(MatchedWords(SplitWords(variantLower), textLower)) * 80,
                      Len(SplitWords(variantLower))>>]
    ELSE [variant |-> variant, score |-> <<0, 1>>]

\* a.score > b.score
ScoreAbove(a, b) == a[1] * b[2] > b[1] * a[2]

\* scores.reduce((max, curr) => curr.score > max.score ? curr : max, ...)
RECURSIVE Reduce(_, _, _)
Reduce(scores, i, max) ==
    IF i > Len(scores) THEN max
    ELSE Reduce(scores, i + 1,
                IF ScoreAbove(scores[i].score, max.score) THEN scores[i] ELSE max)

\* Mutant of Accept: every match is enough
AcceptAnyMatch(best) ==
    IF best.score[1] > 0 THEN best.variant ELSE "Unknown Variant"

\* if (best.score >= 40) return best.variant; return 'Unknown Variant'
Accept(best) ==
    IF best.score[1] >= 40 * best.score[2] THEN best.variant ELSE "Unknown Variant"

\* the scoring of the bank's variants against the lower-case text
BestVariant(variants, textLower) ==
    Accept(Reduce([i \in 1..Len(variants) |->
                      VariantScore(variants[i], ToLowerCase(variants[i]), textLower)],
                  1, [variant |-> "Unknown Variant", score |-> <<0, 1>>]))

\* the code after the first guard, given the variants key
DetectWithKey(text, variantsKey) ==
    IF variantsKey = "" \/ variantsKey \notin DOMAIN BANK_CARD_VARIANTS
    THEN "Unknown Variant"
    ELSE BestVariant(BANK_CARD_VARIANTS[variantsKey], ToLowerCase(text))

\* a missing text or bank name is ""
detectCardVariant(text, bankName) ==
    IF text = "" \/ bankName = "" THEN "Unknown Variant"
    ELSE DetectWithKey(text, getBankVariantsKey(normalizeBankName(bankName)))

\* ---- the texts and bank names detectCardVariant is run on ----
MaxTextWords == 2

CardWords ==
    <<"Emirates", "Skywards", "RUBYX", "Visa", "Magnus", "Burgundy", "Private",
      "vistara", "Infinite", "Diners", "Club", "Black">>

RECURSIVE JoinWords(_)
JoinWords(ws) ==
    IF ws = <<>> THEN ""
    ELSE IF Len(ws) = 1 THEN ws[1]
    ELSE ws[1] \o " " \o JoinWords(Tail(ws))

CardTexts ==
    {JoinWords(LET Picked(w) == w \in picks IN SelectSeq(CardWords, Picked)) :
        picks \in {p \in SUBSET {CardWords[i] : i \in DOMAIN CardWords} :
                      Cardinality(p) <= MaxTextWords}}

CardBanks ==
    {"", "ICICI Bank", "Axis", "HDFC Bank Ltd", "Yes Bank", "Standard Chartered",
     "Grameen Bank"}

(***************************************************************************)
(* Specifications.  Each drives one part of the program; the variables of  *)
(* the other parts stay at their idle values.                              *)
(***************************************************************************)
vars == <<statements, result, statementPeriod, written, parsed, pdfText, verdict,
          email, pc, decision, downloadedAttachments, uploads, analysis, outcome, calls,
          groqResult, stated, rewardPoints, store, upload, fetch, pdf, parse, temp,
          overlap, card, mailbox>>

filterVars == <<statements, result>>
dateVars == <<statementPeriod, written, parsed>>
classifierVars == <<pdfText, verdict>>
triageVars == <<email, pc, decision, downloadedAttachments, uploads, analysis, outcome, calls>>

normalizerVars == <<groqResult, stated, rewardPoints>>
uploadVars == <<store, upload>>
parseVars == <<pdf, parse, temp>>
lastVars == <<card, mailbox>>
laterVars == <<normalizerVars, uploadVars, fetch, parseVars, overlap, lastVars>>
\* the variables of processEmail but the uploads directory
triageFrame == <<email, pc, decision, downloadedAttachments, analysis, outcome, calls>>

IdleFilter == statements = <<>> /\ result = <<>>
IdleDate ==
    /\ statementPeriod = <<>>
    /\ written = [kind |-> "other", layout |-> "", sep |-> "", start |-> <<0, 0, 0>>,
                  end |-> <<0, 0, 0>>, o |-> NoOptions, text |-> <<>>]
    /\ parsed = <<>>
IdleClassifier == pdfText = <<>> /\ verdict = <<>>
Undecided == [shouldProcess |-> FALSE, decisionCase |-> "", reason |-> ""]
NoCalls == [download |-> 0, parsePDF |-> 0, classifier |-> 0, unlink |-> 0,
            unlinkFailed |-> 0]
IdleTriage ==
    /\ email = [from |-> "", subject |-> "", date |-> "", body |-> "", pdfs |-> <<>>]
    /\ pc = "idle"
    /\ decision = Undecided
    /\ downloadedAttachments = <<>>
    /\ uploads = {}
    /\ analysis = <<>>
    /\ outcome = <<>>
    /\ calls = NoCalls

IdleNormalizer ==
    /\ groqResult = JsUndefined
    /\ stated = [adjustedLapsed |-> JsNull, closing |-> JsNull]
    /\ rewardPoints = <<>>
IdleUpload == store = <<>> /\ upload = NoUpload
IdleFetch == fetch = NoFetch
IdleParse == pdf = <<>> /\ parse = NoParse /\ temp = {}
IdleOverlap == overlap = <<>>
IdleLast == card = <<>> /\ mailbox = <<>>
IdleLater ==
    IdleNormalizer /\ IdleUpload /\ IdleFetch /\ IdleParse /\ IdleOverlap /\ IdleLast

\* ---- filterLatestStatements applied to every input list ----
InitFilter ==
    /\ statements \in StatementLists
    /\ result = <<>>
    /\ IdleDate
    /\ IdleClassifier
    /\ IdleTriage
    /\ IdleLater

RunFilter ==
    /\ result = <<>>
    /\ result' = <<filterLatestStatements(statements)>>
    /\ UNCHANGED <<statements, dateVars, classifierVars, triageVars, laterVars>>

NextFilter == RunFilter

SpecFilter == InitFilter /\ [][NextFilter]_vars

\* ---- parseStatementDate applied to every written period ----
InitDate ==
    /\ written \in WrittenPeriods
    /\ statementPeriod = written.text
    /\ parsed = <<>>
    /\ IdleFilter
    /\ IdleClassifier
    /\ IdleTriage
    /\ IdleLater

ParseDate ==
    /\ parsed = <<>>
    /\ parsed' = <<parseStatementDate(statementPeriod)>>
    /\ UNCHANGED <<statementPeriod, written, filterVars, classifierVars, triageVars,
                   laterVars>>

NextDate == ParseDate

SpecDate == InitDate /\ [][NextDate]_vars

\* ---- isLikelyCreditCardStatement applied to every extracted text ----
InitClassifier ==
    /\ pdfText \in ExtractedTexts
    /\ verdict = <<>>
    /\ IdleFilter
    /\ IdleDate
    /\ IdleTriage
    /\ IdleLater

Classify ==
    /\ verdict = <<>>
    /\ verdict' = <<isLikelyCreditCardStatement(pdfText)>>
    /\ UNCHANGED <<pdfText, filterVars, dateVars, triageVars, laterVars>>

NextClassifier == Classify

SpecClassifier == InitClassifier /\ [][NextClassifier]_vars

\* ---- processEmail on every message, with every failure of its awaits ----
otherVars == <<filterVars, dateVars, classifierVars, laterVars>>

InitTriage ==
    /\ email \in Messages
    /\ pc = "getEmailDetails"
    /\ decision = Undecided
    /\ downloadedAttachments = <<>>
    /\ uploads = {}
    /\ analysis = <<>>
    /\ outcome = <<>>
    /\ calls = NoCalls
    /\ IdleFilter
    /\ IdleDate
    /\ IdleClassifier
    /\ IdleLater

\* await getEmailDetails(messageId) throws: the catch block returns
GetEmailDetailsFails ==
    /\ pc = "getEmailDetails"
    /\ pc' = "done"
    /\ outcome' = <<ErrorResult("Failed to get email: unavailable")>>
    /\ UNCHANGED <<email, decision, downloadedAttachments, uploads, analysis, calls,
                   otherVars>>

\* await getEmailDetails(messageId) returns; the code runs to its next await
\* or return: no PDF (return), Case 1 or 2 (first download of the loop),
\* Case 3 (download of the first PDF)
GetEmailDetails ==
    /\ pc = "getEmailDetails"
    /\ IF email.pdfs = <<>>
       THEN /\ pc' = "done"
            /\ outcome' = <<SkippedResult(email, "No PDF attachments")>>
            /\ UNCHANGED decision
       ELSE /\ decision' = DecisionLogic(HeaderOr(email.from, "Unknown"),
                                         HeaderOr(email.subject, "No Subject"),
                                         email.body)
            /\ pc' = IF decision'.shouldProcess THEN "downloadAll" ELSE "downloadFirst"
            /\ UNCHANGED outcome
    /\ UNCHANGED <<email, downloadedAttachments, uploads, analysis, calls, otherVars>>

\* Case 3: await downloadAttachment(first PDF) throws
DownloadFirstFails ==
    /\ pc = "downloadFirst"
    /\ pc' = "done"
    /\ calls' = [calls EXCEPT !.download = @ + 1]
    /\ outcome' = <<ErrorResult("Failed to download attachment: unavailable")>>
    /\ UNCHANGED <<email, decision, downloadedAttachments, uploads, analysis, otherVars>>

\* Case 3: await downloadAttachment(first PDF) writes the file
DownloadFirst ==
    /\ pc = "downloadFirst"
    /\ pc' = "analyzePDFContent"
    /\ calls' = [calls EXCEPT !.download = @ + 1]
    /\ uploads' = uploads \cup {FileId(1)}
    /\ UNCHANGED <<email, decision, downloadedAttachments, analysis, outcome, otherVars>>

\* the code after analyzePDFContent has returned a: return (accepted), or
\* the await of fs.unlink
AfterAnalysis(a) ==
    /\ analysis' = <<a>>
    /\ IF a.isBankRelated
       THEN /\ decision' = [shouldProcess |-> TRUE, decisionCase |-> "Case 3",
                            reason |-> "PDF content is bank-related ("
                                       \o a.confidence \o " confidence)"]
            /\ outcome' = <<AcceptedResult(email, decision'.decisionCase,
                                decision'.reason,
                                <<[attachment |-> PdfAttachment(1),
                                   downloadedFile |-> FileId(1), analysis |-> a]>>)>>
            /\ pc' = "done"
       ELSE /\ decision' = [shouldProcess |-> FALSE, decisionCase |-> "",
                            reason |-> "PDF content not bank-related: " \o a.reason]
            /\ pc' = "unlink"
            /\ UNCHANGED outcome

\* Case 3: await analyzePDFContent(file), parsePDF throwing inside it
AnalyzePDFContentParseFails ==
    /\ pc = "analyzePDFContent"
    /\ calls' = [calls EXCEPT !.parsePDF = @ + 1]
    /\ AfterAnalysis(AnalysisFailed)
    /\ UNCHANGED <<email, downloadedAttachments, uploads, otherVars>>

\* Case 3: await analyzePDFContent(file), parsePDF returning the text
AnalyzePDFContent ==
    /\ pc = "analyzePDFContent"
    /\ calls' = [calls EXCEPT !.parsePDF = @ + 1,
                              !.classifier =
                                  IF PdfTextOf[email.pdfs[1]] = <<>>
                                     \/ TextLength(PdfTextOf[email.pdfs[1]]) < MinPdfTextLength
                                  THEN @ ELSE @ + 1]
    /\ AfterAnalysis(AnalysisOf[email.pdfs[1]])
    /\ UNCHANGED <<email, downloadedAttachments, uploads, otherVars>>

\* Case 3, not bank-related: await fs.unlink(file).catch(() => {}), then the
\* "Final decision" return; removed tells whether unlink succeeded
Unlink ==
    /\ pc = "unlink"
    /\ \E removed \in BOOLEAN :
           /\ uploads' = IF removed THEN uploads \ {FileId(1)} ELSE uploads
           /\ calls' = [calls EXCEPT !.unlink = @ + 1,
                                     !.unlinkFailed = IF removed THEN @ ELSE @ + 1]
    /\ pc' = "done"
    /\ outcome' = <<RejectedResult(email, decision.reason)>>
    /\ UNCHANGED <<email, decision, downloadedAttachments, analysis, otherVars>>

\* Cases 1 and 2: await downloadAttachment(next PDF) throws
DownloadNextFails ==
    /\ pc = "downloadAll"
    /\ pc' = "done"
    /\ calls' = [calls EXCEPT !.download = @ + 1]
    /\ outcome' = <<ErrorResult("Failed to download attachment: unavailable")>>
    /\ UNCHANGED <<email, decision, downloadedAttachments, uploads, analysis, otherVars>>

\* Cases 1 and 2: await downloadAttachment(next PDF) writes the file; after
\* the last one the result is returned
DownloadNext ==
    /\ pc = "downloadAll"
    /\ calls' = [calls EXCEPT !.download = @ + 1]
    /\ uploads' = uploads \cup {FileId(Len(downloadedAttachments) + 1)}
    /\ downloadedAttachments' =
           Append(downloadedAttachments,
                  [attachment |-> PdfAttachment(Len(downloadedAttachments) + 1),
                   downloadedFile |-> FileId(Len(downloadedAttachments) + 1)])
    /\ IF Len(downloadedAttachments') = Len(email.pdfs)
       THEN /\ pc' = "done"
            /\ outcome' = <<AcceptedResult(email, decision.decisionCase,
                                decision.reason, downloadedAttachments')>>
       ELSE UNCHANGED <<pc, outcome>>
    /\ UNCHANGED <<email, decision, analysis, otherVars>>

NextTriage ==
    \/ GetEmailDetailsFails
    \/ GetEmailDetails
    \/ DownloadFirstFails
    \/ DownloadFirst
    \/ AnalyzePDFContentParseFails
    \/ AnalyzePDFContent
    \/ Unlink
    \/ DownloadNextFails
    \/ DownloadNext

SpecTriage == InitTriage /\ [][NextTriage]_vars

\* ---- statement.rewardPoints built from every response and saved ----
InitNormalizer ==
    /\ groqResult \in GroqResults
    /\ stated \in StatedPoints
    /\ rewardPoints = <<>>
    /\ IdleFilter
    /\ IdleDate
    /\ IdleClassifier
    /\ IdleTriage
    /\ IdleUpload
    /\ IdleFetch
    /\ IdleParse
    /\ IdleOverlap
    /\ IdleLast

\* statement.rewardPoints = {...}; await statement.save()
Normalize ==
    /\ rewardPoints = <<>>
    /\ rewardPoints' = <<StatementRewardPoints(RewardPointsOrEmpty(groqResult))>>
    /\ UNCHANGED <<groqResult, stated, filterVars, dateVars, classifierVars, triageVars,
                   uploadVars, fetch, parseVars, overlap, lastVars>>

NextNormalizer == Normalize

SpecNormalizer == InitNormalizer /\ [][NextNormalizer]_vars

\* ---- uploadStatement on every uploaded file, with every failure of its awaits ----
InitUpload ==
    /\ store \in InitialStores
    /\ \E f \in UploadFiles : upload = [NoUpload EXCEPT !.pc = "start", !.file = f]
    /\ uploads = {UploadedFile}
    /\ email = [from |-> "", subject |-> "", date |-> "", body |-> "", pdfs |-> <<>>]
    /\ pc = "idle"
    /\ decision = Undecided
    /\ downloadedAttachments = <<>>
    /\ analysis = <<>>
    /\ outcome = <<>>
    /\ calls = NoCalls
    /\ IdleFilter
    /\ IdleDate
    /\ IdleClassifier
    /\ IdleNormalizer
    /\ IdleFetch
    /\ IdleParse
    /\ IdleOverlap
    /\ IdleLast

uploadRest ==
    <<filterVars, dateVars, classifierVars, triageFrame, normalizerVars, fetch, parseVars,
      overlap, lastVars>>

\* a rejected await: control goes to the catch block with the error
UploadThrows(message) ==
    upload' = [upload EXCEPT !.pc = "catch", !.error = <<message>>]

\* up to the first await: no file (400), or new Statement and
\* await statement.save()
UploadCreate ==
    /\ upload.pc = "start"
    /\ IF upload.file = "none"
       THEN /\ upload' = [upload EXCEPT !.pc = "done",
                              !.response = <<[status |-> 400,
                                              error |-> "No file uploaded"]>>]
            /\ UNCHANGED store
       ELSE \E saved \in BOOLEAN :
               IF saved
               THEN /\ store' = Append(store, NewStatement("statement.pdf", "manual", ""))
                    /\ upload' = [upload EXCEPT
                                     !.pc = "parsePDF", !.id = Len(store) + 1,
                                     !.statement = <<NewStatement("statement.pdf",
                                                                  "manual", "")>>]
               ELSE /\ UploadThrows("save failed")
                    /\ UNCHANGED store
    /\ UNCHANGED <<uploads, uploadRest>>

\* await parsePDF(filePath), await extractPDFMetadata(filePath) (which
\* never throws), statement.rawExtractedText = pdfData.text
UploadParsePDF ==
    /\ upload.pc = "parsePDF"
    /\ \E parsedText \in BOOLEAN :
           IF parsedText
           THEN upload' = [upload EXCEPT
                              !.pc = "saveText",
                              !.pdfData = <<PdfTextOf[upload.file]>>,
                              !.statement =
                                  <<[upload.statement[1] EXCEPT
                                        !.rawExtractedText = <<PdfTextOf[upload.file]>>]>>]
           ELSE UploadThrows("Failed to parse PDF: unreadable")
    /\ UNCHANGED <<store, uploads, uploadRest>>

\* await statement.save() with the raw text
UploadSaveText ==
    /\ upload.pc = "saveText"
    /\ \E saved \in BOOLEAN :
           IF saved
           THEN /\ store' = [store EXCEPT ![upload.id] = upload.statement[1]]
                /\ upload' = [upload EXCEPT !.pc = "extractRewardPoints"]
           ELSE /\ UploadThrows("save failed")
                /\ UNCHANGED store
    /\ UNCHANGED <<uploads, uploadRest>>

\* the code after extractRewardPoints has returned: validation (throws when
\* invalid), then the fields of the statement up to the next save
UploadAfterExtraction(response) ==
    IF validateExtractedData(response).valid
    THEN upload' = [upload EXCEPT
                       !.pc = "saveCompleted",
                       !.statement = <<Completed(upload.statement[1], response)>>]
    ELSE UploadThrows(validateExtractedData(response).error)

\* await extractRewardPoints(pdfData.text, pdfData): the model call or the
\* parsing of its answer throws, or the parsed answer is returned
UploadExtract ==
    /\ upload.pc = "extractRewardPoints"
    /\ \/ UploadThrows("Groq extraction failed: unavailable")
       \/ UploadThrows("Failed to parse Groq response as JSON. Please try again.")
       \/ \E response \in PipelineResponses : UploadAfterExtraction(response)
    /\ UNCHANGED <<store, uploads, uploadRest>>

\* await statement.save() of the completed statement
UploadSaveCompleted ==
    /\ upload.pc = "saveCompleted"
    /\ \E saved \in BOOLEAN :
           IF saved
           THEN /\ store' = [store EXCEPT ![upload.id] = upload.statement[1]]
                /\ upload' = [upload EXCEPT !.pc = "unlink"]
           ELSE /\ UploadThrows("save failed")
                /\ UNCHANGED store
    /\ UNCHANGED <<uploads, uploadRest>>

\* await fs.unlink(filePath), then res.status(200).json(...)
UploadUnlink ==
    /\ upload.pc = "unlink"
    /\ \E removed \in BOOLEAN :
           IF removed
           THEN /\ uploads' = uploads \ {UploadedFile}
                /\ upload' = [upload EXCEPT
                                 !.pc = "done",
                                 !.response = <<[status |-> 200, success |-> TRUE]>>]
           ELSE /\ UploadThrows("unlink failed")
                /\ UNCHANGED uploads
    /\ UNCHANGED <<store, uploadRest>>

\* catch (error): await fs.unlink(filePath).catch(() => {}); next(error)
UploadCatch ==
    /\ upload.pc = "catch"
    /\ \E removed \in BOOLEAN :
           uploads' = IF removed THEN uploads \ {UploadedFile} ELSE uploads
    /\ upload' = [upload EXCEPT
                     !.pc = "done",
                     !.response = <<[status |-> 500, error |-> upload.error[1]]>>]
    /\ UNCHANGED <<store, uploadRest>>

NextUpload ==
    \/ UploadCreate
    \/ UploadParsePDF
    \/ UploadSaveText
    \/ UploadExtract
    \/ UploadSaveCompleted
    \/ UploadUnlink
    \/ UploadCatch

SpecUpload == InitUpload /\ [][NextUpload]_vars

\* ---- uploadStatement as first written (part_003:9-114): no userId, the
\* ---- reward points without adjustedLapsed, and a catch block that marks
\* ---- the record of the file name failed ----
\* new Statement({fileName, processingStatus: 'processing'})
FirstNewStatement(fileName) ==
    [NewStatement(fileName, "manual", "") EXCEPT !.userId = ""]

\* normalizedRewardPoints
FirstRewardPoints(rp) ==
    [opening |-> NullishCoalesce(Get(rp, "opening"), JsNull),
     earned |-> NullishCoalesce(Get(rp, "earned"), JsNull),
     redeemed |-> NullishCoalesce(Get(rp, "redeemed"), JsNull),
     closing |-> NullishCoalesce(Get(rp, "closing"), JsNull),
     breakdown |-> IF /\ ArrayIsArray(Get(rp, "breakdown"))
                      /\ Len(Get(rp, "breakdown").v) > 0
                   THEN Get(rp, "breakdown") ELSE JsNull]

\* Statement.findOneAndUpdate({fileName}, {processingStatus: 'failed',
\* errorMessage}): the first document of that file name
MarkFailedByName(docs, fileName, message) ==
    IF \A id \in DOMAIN docs : docs[id].fileName # fileName THEN docs
    ELSE [docs EXCEPT ![Min({id \in DOMAIN docs : docs[id].fileName = fileName})] =
              [@ EXCEPT !.processingStatus = "failed", !.errorMessage = message]]

FirstUploadCreate ==
    /\ upload.pc = "start"
    /\ IF upload.file = "none"
       THEN /\ upload' = [upload EXCEPT !.pc = "done",
                              !.response = <<[status |-> 400,
                                              error |-> "No file uploaded"]>>]
            /\ UNCHANGED store
       ELSE \E saved \in BOOLEAN :
               IF saved
               THEN /\ store' = Append(store, FirstNewStatement("statement.pdf"))
                    /\ upload' = [upload EXCEPT
                                     !.pc = "parsePDF", !.id = Len(store) + 1,
                                     !.statement = <<FirstNewStatement("statement.pdf")>>]
               ELSE /\ UploadThrows("save failed")
                    /\ UNCHANGED store
    /\ UNCHANGED <<uploads, uploadRest>>

\* the code after extractRewardPoints has returned, as first written
FirstUploadAfterExtraction(response) ==
    IF validateExtractedData(response).valid
    THEN upload' = [upload EXCEPT
                       !.pc = "saveCompleted",
                       !.statement =
                           <<[upload.statement[1] EXCEPT
                                 !.rewardPoints =
                                     <<FirstRewardPoints(RewardPointsOrEmpty(response))>>,
                                 !.aiResponse = <<response>>,
                                 !.processingStatus = "completed"]>>]
    ELSE UploadThrows(validateExtractedData(response).error)

FirstUploadExtract ==
    /\ upload.pc = "extractRewardPoints"
    /\ \/ UploadThrows("Groq extraction failed: unavailable")
       \/ UploadThrows("Failed to parse Groq response as JSON. Please try again.")
       \/ \E response \in PipelineResponses : FirstUploadAfterExtraction(response)
    /\ UNCHANGED <<store, uploads, uploadRest>>

\* catch (error): fs.unlink(filePath) in a try/catch (filePath is set before
\* the first await), findOneAndUpdate in a try/catch, next(error)
FirstUploadCatch ==
    /\ upload.pc = "catch"
    /\ \E removed \in BOOLEAN :
           uploads' = IF removed THEN uploads \ {UploadedFile} ELSE uploads
    /\ \E updated \in BOOLEAN :
           store' = IF updated
                    THEN MarkFailedByName(store, "statement.pdf", upload.error[1])
                    ELSE store
    /\ upload' = [upload EXCEPT
                     !.pc = "done",
                     !.response = <<[status |-> 500, error |-> upload.error[1]]>>]
    /\ UNCHANGED uploadRest

NextFirstUpload ==
    \/ FirstUploadCreate
    \/ UploadParsePDF
    \/ UploadSaveText
    \/ FirstUploadExtract
    \/ UploadSaveCompleted
    \/ UploadUnlink
    \/ FirstUploadCatch

SpecFirstUpload == InitUpload /\ [][NextFirstUpload]_vars

\* ---- fetchStatementsFromGmail, up to MaxFetches times one after the other,
\* ---- on a mailbox of one message, with every failure of its awaits ----
InitFetch ==
    /\ email \in FetchMessages
    /\ pc = "idle"
    /\ decision = Undecided
    /\ downloadedAttachments = <<>>
    /\ uploads = {}
    /\ analysis = <<>>
    /\ outcome = <<>>
    /\ calls = NoCalls
    /\ store = <<>>
    /\ upload = NoUpload
    /\ fetch = [NoFetch EXCEPT !.pc = "start"]
    /\ IdleFilter
    /\ IdleDate
    /\ IdleClassifier
    /\ IdleNormalizer
    /\ IdleParse
    /\ IdleOverlap
    /\ IdleLast

fetchRest ==
    <<filterVars, dateVars, classifierVars, normalizerVars, upload, parseVars, overlap,
      lastVars>>

\* up to processEmail: not authenticated (401), searchStatementEmails throws
\* (next(error)), or processEmail is called on the message
FetchStart ==
    /\ fetch.pc = "start"
    /\ \/ /\ fetch' = [fetch EXCEPT
                          !.pc = "done",
                          !.response = <<[status |-> 401,
                                          error |-> "Gmail not connected. Please authorize first."]>>]
          /\ UNCHANGED pc
       \/ /\ fetch' = [fetch EXCEPT
                          !.pc = "done",
                          !.response = <<[status |-> 500, error |-> "search failed"]>>]
          /\ UNCHANGED pc
       \/ /\ fetch' = [fetch EXCEPT !.pc = "fetchAllStatements", !.before = Len(store)]
          /\ pc' = "getEmailDetails"
    /\ UNCHANGED <<email, decision, downloadedAttachments, uploads, analysis, outcome,
                   calls, store, fetchRest>>

\* processEmail has returned: fetchAllStatements returns result; the early
\* return for count = 0, or the loop up to its first await
FetchCollect ==
    /\ fetch.pc = "fetchAllStatements"
    /\ pc = "done"
    /\ fetch' = IF StatementsOf(outcome[1]) = <<>>
                THEN [fetch EXCEPT
                         !.pc = "done",
                         !.response = <<[status |-> 200, processed |-> 0, failed |-> 0]>>]
                ELSE [fetch EXCEPT !.pc = "findOne", !.i = 1,
                                   !.statements = StatementsOf(outcome[1])]
    /\ UNCHANGED <<triageVars, store, fetchRest>>

\* the code after the lookup found nothing, up to its next await: Case 3
\* takes pdfData from the analysis and builds the statement, the other cases
\* go to parsePDF
AfterLookup(stmt) ==
    IF stmt.decisionCase = "Case 3" /\ stmt.pdfAnalysis # <<>>
    THEN [fetch EXCEPT
             !.pc = "saveNew", !.looked = @ \cup {fetch.i},
             !.pdfData = <<PdfTextOf[stmt.content]>>,
             !.statement = <<NewStatement(stmt.file.originalFilename, "gmail",
                                          stmt.messageId)>>]
    ELSE [fetch EXCEPT !.pc = "parsePDF", !.looked = @ \cup {fetch.i}]

\* await Statement.findOne(...)
FetchFindOne ==
    /\ fetch.pc = "findOne"
    /\ \/ fetch' = Caught(fetch, "lookup failed")
       \/ /\ Existing(store, fetch.statements[fetch.i]) # {}
          /\ fetch' = [fetch EXCEPT !.pc = "unlinkDuplicate",
                                    !.looked = @ \cup {fetch.i},
                                    !.duplicates = Append(@, fetch.i)]
       \/ /\ Existing(store, fetch.statements[fetch.i]) = {}
          /\ fetch' = AfterLookup(fetch.statements[fetch.i])
    /\ UNCHANGED <<triageVars, store, fetchRest>>

\* await fs.unlink(stmt.file.filePath).catch(() => {}) of the three paths,
\* then the next iteration or the summary.  The outcome of the unlink does
\* not reach the control flow; the file is taken to be removed.
FetchUnlink ==
    /\ fetch.pc \in {"unlinkDuplicate", "unlinkProcessed", "unlinkFailed"}
    /\ uploads' = uploads \ {fetch.statements[fetch.i].file.filePath}
    /\ fetch' = Continue(fetch)
    /\ UNCHANGED <<triageFrame, store, fetchRest>>

\* await parsePDF(stmt.file.filePath); the classifier's verdict is only
\* logged; new Statement
FetchParsePDF ==
    /\ fetch.pc = "parsePDF"
    /\ \/ fetch' = Caught(fetch, "Failed to parse PDF: unreadable")
       \/ fetch' = [fetch EXCEPT
                       !.pc = "saveNew",
                       !.validated = @ \cup {fetch.i},
                       !.pdfData = <<PdfTextOf[fetch.statements[fetch.i].content]>>,
                       !.statement =
                           <<NewStatement(
                                 fetch.statements[fetch.i].file.originalFilename,
                                 "gmail", fetch.statements[fetch.i].messageId)>>]
    /\ UNCHANGED <<triageVars, store, fetchRest>>

\* await statement.save() of the new statement;
\* statement.rawExtractedText = pdfData.text
FetchSaveNew ==
    /\ fetch.pc = "saveNew"
    /\ \/ /\ fetch' = Caught(fetch, "save failed")
          /\ UNCHANGED store
       \/ /\ store' = Append(store, fetch.statement[1])
          /\ fetch' = [fetch EXCEPT
                          !.pc = "saveText", !.id = Len(store) + 1,
                          !.statement = <<[fetch.statement[1] EXCEPT
                                             !.rawExtractedText = fetch.pdfData]>>]
    /\ UNCHANGED <<triageVars, fetchRest>>

\* await statement.save() with the raw text
FetchSaveText ==
    /\ fetch.pc = "saveText"
    /\ \/ /\ fetch' = Caught(fetch, "save failed")
          /\ UNCHANGED store
       \/ /\ store' = [store EXCEPT ![fetch.id] = fetch.statement[1]]
          /\ fetch' = [fetch EXCEPT !.pc = "extractRewardPoints"]
    /\ UNCHANGED <<triageVars, fetchRest>>

\* await extractRewardPoints(pdfData.text, pdfData), then the fields of the
\* statement (no validateExtractedData here)
FetchExtract ==
    /\ fetch.pc = "extractRewardPoints"
    /\ \/ fetch' = Caught([fetch EXCEPT !.extracted = @ \cup {fetch.i}],
                          "Groq extraction failed: unavailable")
       \/ \E response \in FetchResponses :
              fetch' = [fetch EXCEPT
                          !.pc = "saveCompleted",
                          !.extracted = @ \cup {fetch.i},
                          !.statement = <<Completed(fetch.statement[1], response)>>]
    /\ UNCHANGED <<triageVars, store, fetchRest>>

\* await statement.save() of the completed statement; processed.push
FetchSaveCompleted ==
    /\ fetch.pc = "saveCompleted"
    /\ \/ /\ fetch' = Caught(fetch, "save failed")
          /\ UNCHANGED store
       \/ /\ store' = [store EXCEPT ![fetch.id] = fetch.statement[1]]
          /\ fetch' = [fetch EXCEPT !.pc = "unlinkProcessed",
                                    !.processed = Append(@, fetch.i)]
    /\ UNCHANGED <<triageVars, fetchRest>>

\* catch: await Statement.findOneAndUpdate(...) inside its own try/catch
FetchMarkFailed ==
    /\ fetch.pc = "findOneAndUpdate"
    /\ \E updated \in BOOLEAN :
           store' = IF updated
                    THEN MarkFailed(store, fetch.statements[fetch.i], fetch.error[1])
                    ELSE store
    /\ fetch' = [fetch EXCEPT !.pc = "unlinkFailed"]
    /\ UNCHANGED <<triageVars, fetchRest>>

\* the response is out: the next request of the user starts
FetchAgain ==
    /\ fetch.pc = "done"
    /\ fetch.fetched + 1 < MaxFetches
    /\ fetch' = [NoFetch EXCEPT !.pc = "start", !.fetched = fetch.fetched + 1]
    /\ pc' = "idle"
    /\ decision' = Undecided
    /\ downloadedAttachments' = <<>>
    /\ analysis' = <<>>
    /\ outcome' = <<>>
    /\ calls' = NoCalls
    /\ UNCHANGED <<email, uploads, store, fetchRest>>

NextFetch ==
    \/ FetchStart
    \/ NextTriage
    \/ FetchCollect
    \/ FetchFindOne
    \/ FetchUnlink
    \/ FetchParsePDF
    \/ FetchSaveNew
    \/ FetchSaveText
    \/ FetchExtract
    \/ FetchSaveCompleted
    \/ FetchMarkFailed
    \/ FetchAgain

SpecFetch == InitFetch /\ [][NextFetch]_vars

\* ---- MaxOverlap requests of fetchStatementsFromGmail at the same document,
\* ---- their awaits interleaved, with every failure of the awaits ----
InitOverlap ==
    /\ overlap = [r \in 1..MaxOverlap |-> NoRequest]
    /\ store \in {<<>>, <<Completed(NewStatement("statement.pdf", "gmail", "msg-1"),
                                     JsObject([rewardPoints |-> JsObject(<<>>)]))>>}
    /\ upload = NoUpload
    /\ IdleFilter
    /\ IdleDate
    /\ IdleClassifier
    /\ IdleTriage
    /\ IdleNormalizer
    /\ IdleFetch
    /\ IdleParse
    /\ IdleLast

overlapRest ==
    <<filterVars, dateVars, classifierVars, triageVars, normalizerVars, upload, fetch,
      parseVars, lastVars>>

\* request r moves to pc, or into its catch block with the error
Moves(r, pc_) == overlap' = [overlap EXCEPT ![r].pc = pc_]
Catches(r, message) ==
    overlap' = [overlap EXCEPT ![r].pc = "findOneAndUpdate", ![r].error = <<message>>]

\* await Statement.findOne({userId, fileName, 'metadata.gmailMessageId'});
\* if (existing) { duplicates.push; unlink; continue }
OverlapFindOne(r) ==
    /\ overlap[r].pc = "findOne"
    /\ \/ Catches(r, "lookup failed")
       \/ IF Existing(store, OverlapDocument) # {}
          THEN Moves(r, "duplicate")
          ELSE Moves(r, "parsePDF")
    /\ UNCHANGED <<store, overlapRest>>

\* await parsePDF(stmt.file.filePath), validation, new Statement({...})
OverlapParsePDF(r) ==
    /\ overlap[r].pc = "parsePDF"
    /\ \/ Catches(r, "Failed to parse PDF: unreadable")
       \/ Moves(r, "saveNew")
    /\ UNCHANGED <<store, overlapRest>>

\* await statement.save() of the new record
OverlapSaveNew(r) ==
    /\ overlap[r].pc = "saveNew"
    /\ \/ /\ Catches(r, "save failed")
          /\ UNCHANGED store
       \/ /\ store' = Insert(store, NewStatement("statement.pdf", "gmail", "msg-1"))
          /\ overlap' = [overlap EXCEPT ![r].pc = "extractRewardPoints",
                                        ![r].id = Len(store) + 1]
    /\ UNCHANGED overlapRest

\* the save of the raw text, await extractRewardPoints(...), the fields of
\* the statement and await statement.save() of the completed record
OverlapExtract(r) ==
    /\ overlap[r].pc = "extractRewardPoints"
    /\ \/ /\ Catches(r, "Groq extraction failed: unavailable")
          /\ UNCHANGED store
       \/ /\ store' = [store EXCEPT
                           ![overlap[r].id] =
                               Completed(@, JsObject([rewardPoints |-> JsObject(<<>>)]))]
          /\ Moves(r, "processed")
    /\ UNCHANGED overlapRest

\* catch: failed.push; await Statement.findOneAndUpdate(...) in a try/catch
OverlapMarkFailed(r) ==
    /\ overlap[r].pc = "findOneAndUpdate"
    /\ \/ store' = MarkFailed(store, OverlapDocument, overlap[r].error[1])
       \/ UNCHANGED store
    /\ Moves(r, "failed")
    /\ UNCHANGED overlapRest

NextOverlap ==
    \E r \in 1..MaxOverlap :
        \/ OverlapFindOne(r)
        \/ OverlapParsePDF(r)
        \/ OverlapSaveNew(r)
        \/ OverlapExtract(r)
        \/ OverlapMarkFailed(r)

SpecOverlap == InitOverlap /\ [][NextOverlap]_vars

\* ---- detectCardVariant on every text and bank name ----
InitVariant ==
    /\ card \in [text : CardTexts, bankName : CardBanks, variant : {<<>>}]
    /\ mailbox = <<>>
    /\ IdleFilter
    /\ IdleDate
    /\ IdleClassifier
    /\ IdleTriage
    /\ IdleNormalizer
    /\ IdleUpload
    /\ IdleFetch
    /\ IdleParse
    /\ IdleOverlap

DetectVariant ==
    /\ card.variant = <<>>
    /\ card' = [card EXCEPT !.variant = <<detectCardVariant(card.text, card.bankName)>>]
    /\ UNCHANGED <<mailbox, filterVars, dateVars, classifierVars, triageVars,
                   normalizerVars, uploadVars, fetch, parseVars, overlap>>

NextVariant == DetectVariant

SpecVariant == InitVariant /\ [][NextVariant]_vars

\* ---- fetchAllStatements on every mailbox, with every failure of its awaits ----
MaxMessages == 2

Mail(from, subject, pdfs) ==
    [from |-> from, subject |-> subject, date |-> "Tue, 05 Nov 2024 10:00:00 +0530",
     body |-> "See attached.", pdfs |-> pdfs]

\* the messages searchStatementEmails may return: one of Case 1, one of
\* Case 2 with two PDFs, two of Case 3 and one without a PDF
MailboxMessages ==
    {Mail("statements@hdfcbank.com", "Order 42", <<"statement">>),
     Mail("friend@mail.example", "Your Credit Card Statement", <<"invoice", "letter">>),
     Mail("friend@mail.example", "Order 42", <<"statement">>),
     Mail("friend@mail.example", "Order 42", <<"letter">>),
     Mail("friend@mail.example", "Order 42", <<>>)}

Mailboxes == UNION {[1..n -> MailboxMessages] : n \in 0..MaxMessages}

\* const statistics = { totalEmails: messages.length, case1: 0, ... }
NewStatistics(total) ==
    [totalEmails |-> total, case1 |-> 0, case2 |-> 0, case3 |-> 0, ignored |-> 0,
     processed |-> 0, errors |-> 0]

\* if (result.error): the error message is a string, truthy unless empty
HasError(res) == "error" \in DOMAIN res /\ res.error # ""

\* Mutant of Tally: a result with an error is counted under errors only
TallyErrorsApart(statistics, res) ==
    IF res.skipped
    THEN IF HasError(res)
         THEN [statistics EXCEPT !.errors = @ + 1]
         ELSE [statistics EXCEPT !.ignored = @ + 1]
    ELSE [statistics EXCEPT
             !.case1 = IF res.decisionCase = "Case 1" THEN @ + 1 ELSE @,
             !.case2 = IF res.decisionCase = "Case 2" THEN @ + 1 ELSE @,
             !.case3 = IF res.decisionCase = "Case 3" THEN @ + 1 ELSE @,
             !.processed = @ + 1]

\* the body of the loop over the messages, but for results.push
Tally(statistics, res) ==
    IF res.skipped
    THEN [statistics EXCEPT !.ignored = @ + 1,
                            !.errors = IF HasError(res) THEN @ + 1 ELSE @]
    ELSE [statistics EXCEPT
             !.case1 = IF res.decisionCase = "Case 1" THEN @ + 1 ELSE @,
             !.case2 = IF res.decisionCase = "Case 2" THEN @ + 1 ELSE @,
             !.case3 = IF res.decisionCase = "Case 3" THEN @ + 1 ELSE @,
             !.processed = @ + 1]

\* mailbox.returned is the history of what processEmail returned, message
\* by message
NewMailbox(messages) ==
    [pc |-> "searchStatementEmails", messages |-> messages, i |-> 0, results |-> <<>>,
     statistics |-> <<>>, returned |-> <<>>, response |-> <<>>]

InitMailbox ==
    /\ mailbox \in {NewMailbox(messages) : messages \in Mailboxes}
    /\ card = <<>>
    /\ IdleFilter
    /\ IdleDate
    /\ IdleClassifier
    /\ IdleTriage
    /\ IdleNormalizer
    /\ IdleUpload
    /\ IdleFetch
    /\ IdleParse
    /\ IdleOverlap

mailboxRest ==
    <<card, filterVars, dateVars, classifierVars, normalizerVars, uploadVars, fetch,
      parseVars, overlap>>

\* await searchStatementEmails(filters) throws: the catch block rethrows
MailboxSearchFails ==
    /\ mailbox.pc = "searchStatementEmails"
    /\ mailbox' = [mailbox EXCEPT !.pc = "thrown"]
    /\ UNCHANGED <<triageVars, mailboxRest>>

\* await searchStatementEmails(filters) returns the messages: the early
\* return of an empty list, or processEmail called on the first message
MailboxSearch ==
    /\ mailbox.pc = "searchStatementEmails"
    /\ IF mailbox.messages = <<>>
       THEN /\ mailbox' = [mailbox EXCEPT
                              !.pc = "returned",
                              !.statistics = <<NewStatistics(0)>>,
                              !.response = <<[success |-> TRUE, count |-> 0,
                                              message |-> "No emails found"]>>]
            /\ UNCHANGED <<email, pc>>
       ELSE /\ mailbox' = [mailbox EXCEPT
                              !.pc = "processEmail", !.i = 1,
                              !.statistics = <<NewStatistics(Len(mailbox.messages))>>]
            /\ email' = mailbox.messages[1]
            /\ pc' = "getEmailDetails"
    /\ UNCHANGED <<decision, downloadedAttachments, uploads, analysis, outcome, calls,
                   mailboxRest>>

\* await processEmail(messages[i].id, ...) has returned: the body of the
\* loop, then processEmail called on the next message, or the return
MailboxTally ==
    /\ mailbox.pc = "processEmail"
    /\ pc = "done"
    /\ mailbox' = [mailbox EXCEPT
                      !.statistics = <<Tally(mailbox.statistics[1], outcome[1])>>,
                      !.results = @ \o StatementsOf(outcome[1]),
                      !.returned = Append(@, outcome[1]),
                      !.i = IF mailbox.i < Len(mailbox.messages) THEN @ + 1 ELSE @,
                      !.pc = IF mailbox.i < Len(mailbox.messages)
                             THEN "processEmail" ELSE "returned",
                      !.response =
                          IF mailbox.i < Len(mailbox.messages) THEN <<>>
                          ELSE <<[success |-> TRUE,
                                  count |-> Len(mailbox.results)
                                            + Len(StatementsOf(outcome[1]))]>>]
    /\ IF mailbox.i < Len(mailbox.messages)
       THEN /\ email' = mailbox.messages[mailbox.i + 1]
            /\ pc' = "getEmailDetails"
            /\ decision' = Undecided
            /\ downloadedAttachments' = <<>>
            /\ analysis' = <<>>
            /\ outcome' = <<>>
       ELSE UNCHANGED <<email, pc, decision, downloadedAttachments, analysis, outcome>>
    /\ UNCHANGED <<uploads, calls, mailboxRest>>

NextMailbox ==
    \/ MailboxSearchFails
    \/ MailboxSearch
    \/ MailboxTally
    \/ GetEmailDetailsFails
    \/ GetEmailDetails
    \/ DownloadFirstFails
    \/ DownloadFirst
    \/ AnalyzePDFContentParseFails
    \/ AnalyzePDFContent
    \/ Unlink
    \/ DownloadNextFails
    \/ DownloadNext

SpecMailbox == InitMailbox /\ [][NextMailbox]_vars

\* ---- parsePDF on every file, with every failure of its awaits ----
InitParse ==
    /\ pdf \in PdfFiles
    /\ parse = [NoParse EXCEPT !.pc = "extract"]
    /\ temp = {}
    /\ IdleFilter
    /\ IdleDate
    /\ IdleClassifier
    /\ IdleTriage
    /\ IdleNormalizer
    /\ IdleUpload
    /\ IdleFetch
    /\ IdleOverlap
    /\ IdleLast

parseRest ==
    <<filterVars, dateVars, classifierVars, triageVars, normalizerVars, uploadVars, fetch,
      overlap, lastVars>>

\* the catch blocks of parsePDFWithOCR and parsePDF on the way out
ParseThrows(message) == "Failed to parse PDF: " \o message
OcrThrows(message) == ParseThrows("OCR processing failed: " \o message)

\* parsePDF once pdfExtract.extract has returned the pages: the direct
\* result, or on to parsePDFWithOCR
AfterExtract(extracted, numPages) ==
    IF ~isPDFScanned(extracted, numPages) /\ extracted.trimmed > 100
    THEN [parse EXCEPT !.pc = "returned", !.text = <<extracted>>,
                       !.result = <<DirectResult(extracted, numPages)>>]
    ELSE [parse EXCEPT !.pc = "convert", !.text = <<extracted>>]

\* await pdfExtract.extract(filePath)
ParseExtract ==
    /\ parse.pc = "extract"
    /\ \/ parse' = [parse EXCEPT !.pc = "thrown",
                                  !.error = <<ParseThrows("unreadable")>>]
       \/ parse' = AfterExtract(ExtractedText(pdf), Len(pdf))
    /\ UNCHANGED <<pdf, temp, parseRest>>

\* await convertPDFToImages(filePath): convert writes the images of the
\* first written pages and then either fails (imagePaths stays empty, so
\* the catch block of parsePDFWithOCR cleans nothing) or has written them all
ParseConvert ==
    /\ parse.pc = "convert"
    /\ \E made \in 0..Len(pdf) :
           /\ temp' = temp \cup {PageImage(k) : k \in 1..made}
           /\ \/ parse' = [parse EXCEPT
                               !.pc = "thrown",
                               !.error = <<OcrThrows("Failed to convert PDF to images: failed")>>]
              \/ /\ made = Len(pdf)
                 /\ parse' = IF made = 0
                             THEN [parse EXCEPT
                                      !.pc = "thrown",
                                      !.error = <<OcrThrows("No images generated from PDF")>>]
                             ELSE [parse EXCEPT
                                      !.pc = "preprocess", !.page = 1, !.attempt = 1,
                                      !.imagePaths = [k \in 1..made |-> PageImage(k)]]
    /\ UNCHANGED <<pdf, parseRest>>

\* performOCR: await preprocessImage(imagePath): the copy is written, or
\* sharp fails and the original image is used
ParsePreprocess ==
    /\ parse.pc = "preprocess"
    /\ \/ /\ temp' = temp \cup {ProcessedCopy(parse.page)}
          /\ parse' = [parse EXCEPT !.pc = "recognize",
                                    !.copy = <<ProcessedCopy(parse.page)>>]
       \/ /\ parse' = [parse EXCEPT !.pc = "recognize", !.copy = <<>>]
          /\ UNCHANGED temp
    /\ UNCHANGED <<pdf, parseRest>>

\* the code after performOCR has returned r: the next attempt of
\* performAdaptiveOCR (one page), the next page of
\* performOCROnMultipleImages, or on to cleanupImages
AfterRecognition(f, r) ==
    IF Len(f.imagePaths) = 1
    THEN CASE f.attempt = 1 /\ r.confidence < 70 ->
                  [f EXCEPT !.pc = "preprocess", !.attempt = 2, !.best = <<r>>]
           [] f.attempt = 1 /\ r.confidence >= 70 ->
                  [f EXCEPT !.pc = "cleanup", !.best = <<r>>]
           [] f.attempt = 2 /\ Better(f.best[1], r).confidence < 60 ->
                  [f EXCEPT !.pc = "recognize", !.attempt = 3,
                            !.best = <<Better(f.best[1], r)>>]
           [] OTHER ->
                  [f EXCEPT !.pc = "cleanup", !.best = <<Better(f.best[1], r)>>]
    ELSE IF f.page < Len(f.imagePaths)
         THEN [f EXCEPT !.pc = "preprocess", !.page = f.page + 1,
                        !.results = Append(f.results, r)]
         ELSE [f EXCEPT !.pc = "cleanup", !.results = Append(f.results, r)]

\* performOCR: createWorker, setParameters, recognize, terminate; a failure
\* throws with the copy left behind, a success unlinks the copy
ParseRecognize ==
    /\ parse.pc = "recognize"
    /\ \/ /\ parse' = [parse EXCEPT !.pc = "cleanupAfterError",
                                    !.error = <<OcrThrows("OCR failed: recognize")>>]
          /\ UNCHANGED temp
       \/ \E r \in Recognitions :
              /\ temp' = temp \ {parse.copy[j] : j \in DOMAIN parse.copy}
              /\ parse' = AfterRecognition(
                              [parse EXCEPT
                                  !.copy = <<>>,
                                  !.attempts = Append(@, [page |-> parse.page,
                                                          confidence |-> r.confidence])],
                              r)
    /\ UNCHANGED <<pdf, parseRest>>

\* parsePDFWithOCR: await cleanupImages(imagePaths), then the result
ParseCleanup ==
    /\ parse.pc = "cleanup"
    /\ temp' = temp \ {parse.imagePaths[k] : k \in DOMAIN parse.imagePaths}
    /\ parse' = [parse EXCEPT
                    !.pc = "returned",
                    !.result =
                        IF Len(parse.imagePaths) = 1
                        THEN <<OcrResult([length |-> parse.best[1].length], parse.best)>>
                        ELSE <<OcrResult(MultiPageText(parse.results), parse.results)>>]
    /\ UNCHANGED <<pdf, parseRest>>

\* parsePDFWithOCR, catch: cleanupImages(imagePaths) when there are paths,
\* then the error goes up
ParseCleanupAfterError ==
    /\ parse.pc = "cleanupAfterError"
    /\ temp' = temp \ {parse.imagePaths[k] : k \in DOMAIN parse.imagePaths}
    /\ parse' = [parse EXCEPT !.pc = "thrown"]
    /\ UNCHANGED <<pdf, parseRest>>

NextParse ==
    \/ ParseExtract
    \/ ParseConvert
    \/ ParsePreprocess
    \/ ParseRecognize
    \/ ParseCleanup
    \/ ParseCleanupAfterError

SpecParse == InitParse /\ [][NextParse]_vars

(***************************************************************************)
(* Claims about filterLatestStatements (specification SpecFilter).         *)
(***************************************************************************)
FilterDone == result # <<>>
Returned == result[1]
Input == 1..Len(statements)

Occurrences(x, seq) == Cardinality({k \in 1..Len(seq) : seq[k] = x})
IsLatest(i) == InSeq(i, Returned.latest)
IsFiltered(i) == InSeq(i, Returned.filtered)
IsDuplicate(i) == InSeq(i, Returned.duplicates)

SameGroup(i, j) ==
    /\ BankKey(statements[i]) = BankKey(statements[j])
    /\ VariantKey(statements[i]) = VariantKey(statements[j])
GroupOf(i) == {j \in Input : SameGroup(i, j)}
Parses(i) == ~ParsedDateOf[statements[i].statementPeriod].isNull
EndDay(i) == ParsedDateOf[statements[i].statementPeriod].day

\* C1: every input record is in exactly one of latest, filtered and
\* duplicates, exactly once; the lists hold nothing else.
C1_Partition ==
    FilterDone =>
        /\ \A i \in Input :
              Occurrences(i, Returned.latest) + Occurrences(i, Returned.filtered)
                  + Occurrences(i, Returned.duplicates) = 1
        /\ Len(Returned.latest) + Len(Returned.filtered) + Len(Returned.duplicates)
              = Len(statements)

\* C1 witness: a run that returned a latest, an older and a duplicate record
C1_Witness ==
    /\ FilterDone
    /\ Returned.latest # <<>> /\ Returned.filtered # <<>> /\ Returned.duplicates # <<>>

\* C2: every (normalized bank, variant) group of the input has exactly one
\* record in latest, and latest holds nothing else.
C2_OneLatestPerGroup ==
    FilterDone =>
        /\ \A i \in Input : Cardinality({j \in GroupOf(i) : IsLatest(j)}) = 1
        /\ \A i \in Input : Occurrences(i, Returned.latest) <= 1
        /\ \A k \in 1..Len(Returned.latest) : Returned.latest[k] \in Input

\* C2 witness: two groups, one holding a duplicate pair, one holding only a
\* record whose period does not parse
C2_Witness ==
    /\ FilterDone
    /\ Len(Returned.latest) = 2
    /\ Returned.duplicates # <<>>
    /\ \E i \in Input : GroupOf(i) = {i} /\ ~Parses(i)

\* C3: in a group where some period parses, the latest record's period
\* parses and its end date is not before any other parsed end date of the group.
C3_LatestHasLatestDate ==
    FilterDone =>
        \A i \in Input :
            (IsLatest(i) /\ \E j \in GroupOf(i) : Parses(j)) =>
                /\ Parses(i)
                /\ \A j \in GroupOf(i) : Parses(j) => EndDay(i) >= EndDay(j)

\* C3 witness: the latest record comes after an older and an unparseable
\* record of its group in the input
C3_Witness ==
    /\ FilterDone
    /\ \E i, j, k \in Input :
          /\ j < i /\ k < i /\ SameGroup(i, j) /\ SameGroup(i, k)
          /\ IsLatest(i) /\ Parses(j) /\ EndDay(j) < EndDay(i) /\ ~Parses(k)

\* C4 (as claimed): among the records of a group that share the latest
\* record's end date, the latest record has the greatest upload timestamp.
C4_MostRecentUploadWins ==
    FilterDone =>
        \A i \in Input :
            (IsLatest(i) /\ Parses(i)) =>
                \A j \in GroupOf(i) :
                    (Parses(j) /\ EndDay(j) = EndDay(i)) =>
                        statements[j].uploadDate <= statements[i].uploadDate

\* C5 (as claimed): in a group of two or more records, a record whose period
\* does not parse is never the latest.
C5_UnparseableNeverLatest ==
    FilterDone =>
        \A i \in Input :
            (IsLatest(i) /\ Cardinality(GroupOf(i)) >= 2) => Parses(i)

\* C5 (amended): in a group of two or more records, a record whose period
\* does not parse is the latest only when no period of the group parses, and
\* it is then the first record of the group in input order.
C5_UnparseableLatestOnlyIfNoneParses ==
    FilterDone =>
        \A i \in Input :
            (IsLatest(i) /\ Cardinality(GroupOf(i)) >= 2 /\ ~Parses(i)) =>
                /\ \A j \in GroupOf(i) : ~Parses(j)
                /\ \A j \in GroupOf(i) : i <= j

\* C5 witness: a group whose first record does not parse and whose latest
\* record is a later one that parses
C5_Witness ==
    /\ FilterDone
    /\ \E i, j \in Input :
          i < j /\ SameGroup(i, j) /\ ~Parses(i) /\ IsLatest(j) /\ Parses(j)

\* The duplicate relation as the claim states it: identical raw period and
\* either the identical file name or the identical non-empty card number
ClaimedDuplicate(a, b) ==
    /\ a.statementPeriod = b.statementPeriod
    /\ \/ a.fileName = b.fileName
       \/ (a.cardNumber # "" /\ a.cardNumber = b.cardNumber)

\* C6 (as claimed): a record is in duplicates iff an earlier record of its
\* group is a duplicate of it.
C6_DuplicateIffEarlierMatch ==
    FilterDone =>
        \A i \in Input :
            IsDuplicate(i) <=>
                \E j \in GroupOf(i) :
                    j < i /\ ClaimedDuplicate(statements[j], statements[i])

\* the scenario of C6: two records "April 2024" / "stmt.pdf" of one group
AprilPair ==
    /\ Len(statements) = 2
    /\ SameGroup(1, 2)
    /\ \A i \in Input : /\ statements[i].statementPeriod = "April 2024"
                        /\ statements[i].fileName = "stmt.pdf"

\* C6 (amended): a record is in duplicates iff an earlier record of its group
\* that is not itself in duplicates is a duplicate of it; such a record is
\* never in filtered; the "April 2024" / "stmt.pdf" pair gives one latest and
\* one duplicate.
C6_DuplicateIffEarlierKeptMatch ==
    FilterDone =>
        /\ \A i \in Input :
              IsDuplicate(i) <=>
                  \E j \in GroupOf(i) :
                      /\ j < i /\ ~IsDuplicate(j)
                      /\ ClaimedDuplicate(statements[j], statements[i])
        /\ \A i \in Input : IsDuplicate(i) => ~IsFiltered(i)
        /\ AprilPair => /\ Returned.latest = <<1>>
                        /\ Returned.duplicates = <<2>>
                        /\ Returned.filtered = <<>>

\* C6 witness: the third record matches only an earlier record that was
\* itself reported as a duplicate, and is not reported
C6_Witness ==
    /\ FilterDone
    /\ \E i, j \in Input :
          /\ j < i /\ SameGroup(i, j) /\ IsDuplicate(j) /\ ~IsDuplicate(i)
          /\ ClaimedDuplicate(statements[j], statements[i])

(***************************************************************************)
(* Claims about parseStatementDate (specification SpecDate).               *)
(***************************************************************************)
\* The calendar, independently of the Date arithmetic above: the day number
\* of 1 January of each year written, and the days before each month
YearStart == [y \in Years |-> IF y = 2024 THEN 19723 ELSE 20089]
DaysBefore == <<0, 31, 59, 90, 120, 151, 181, 212, 243, 273, 304, 334>>
MonthLength == <<31, 28, 31, 30, 31, 30, 31, 31, 30, 31, 30, 31>>

\* the written date <<year, month, day>> exists in the calendar
Exists(d) ==
    /\ d[1] \in Years /\ d[2] \in 1..12 /\ d[3] >= 1
    /\ d[3] <= MonthLength[d[2]] + (IF d[1] = 2024 /\ d[2] = 2 THEN 1 ELSE 0)

CalendarDay(d) ==
    YearStart[d[1]] + DaysBefore[d[2]] + (IF d[1] = 2024 /\ d[2] > 2 THEN 1 ELSE 0)
        + d[3] - 1

ParseDone == parsed # <<>>

\* C7: for a range written in a supported format whose end date exists, the
\* parser returns the end date (and so not the start date);
\* "20/03/2024 - 18/04/2024" gives 18 April 2024 (day 19831).
C7_RangeGivesEndDate ==
    ParseDone =>
        /\ (/\ written.kind = "range"
            /\ <<written.layout, written.sep>> \in SupportedRanges
            /\ Exists(written.end))
              => /\ parsed[1] = DateOf(CalendarDay(written.end))
                 /\ parsed[1] # DateOf(CalendarDay(written.start))
        /\ statementPeriod = PeriodAxis => parsed[1] = DateOf(19831)

\* C7 witness: "20/03/2024 - 18/04/2024" has been parsed to 18 April 2024
C7_Witness ==
    /\ ParseDone
    /\ statementPeriod = PeriodAxis
    /\ written.kind = "range" /\ written.start = <<2024, 3, 20>>
    /\ parsed[1] = DateOf(19831)

(***************************************************************************)
(* Claims about isLikelyCreditCardStatement (specification SpecClassifier).*)
(***************************************************************************)
ClassifyDone == verdict # <<>>
Returned_verdict == verdict[1]
Sample == getQuickSample(pdfText, QuickSampleChars)
SampleHas(indicators) ==
    \E i \in 1..Len(indicators) : TextIncludes(Sample, indicators[i])
NegativeInSample == SampleHas(STATEMENT_INDICATORS.negative)
RequiredInSample == SampleHas(STATEMENT_INDICATORS.required)
LongEnough == TextLength(Sample) >= MinSampleLength

\* C8 (as stated): a text whose sampled first 2000 characters contain a
\* negative indicator is never classified isStatement = true, whatever
\* required, bank-name and positive indicators the sample also contains.
C8_NegativeNeverStatement ==
    (ClassifyDone /\ NegativeInSample) => ~Returned_verdict.isStatement

\* C9: for a sample of at least 100 characters with a required keyword the
\* verdict follows the tier table on the returned score and the negative
\* flag (>= 5 without negative: high, true; 3 or 4 without negative:
\* medium, true; otherwise >= 1: low, true; otherwise false); a sample
\* under 100 characters or without a required keyword gives false.
C9_TierTable ==
    ClassifyDone =>
        IF ~LongEnough \/ ~RequiredInSample
        THEN ~Returned_verdict.isStatement
        ELSE /\ (Returned_verdict.score >= 5 /\ ~NegativeInSample) =>
                    /\ Returned_verdict.confidence = "high"
                    /\ Returned_verdict.isStatement
             /\ (Returned_verdict.score \in {3, 4} /\ ~NegativeInSample) =>
                    /\ Returned_verdict.confidence = "medium"
                    /\ Returned_verdict.isStatement
             /\ (Returned_verdict.score >= 1
                    /\ ~(Returned_verdict.score >= 3 /\ ~NegativeInSample)) =>
                    /\ Returned_verdict.confidence = "low"
                    /\ Returned_verdict.isStatement
             /\ Returned_verdict.score < 1 => ~Returned_verdict.isStatement

\* a sample of 100 characters or more with "credit card" and one positive
\* indicator and no negative one: score 4, the medium tier
C9_Witness ==
    /\ ClassifyDone
    /\ LongEnough /\ RequiredInSample /\ ~NegativeInSample
    /\ "score" \in DOMAIN Returned_verdict
    /\ Returned_verdict.score = 4
    /\ Returned_verdict.confidence = "medium"

(***************************************************************************)
(* Claims about processEmail (specification SpecTriage).                   *)
(***************************************************************************)
\* the senders of Senders that are at a bank domain, and the subjects and
\* bodies that contain a bank keyword
BankSenders == {"statements@hdfcbank.com", "HDFC Bank <Alerts@HDFCBank.net>"}
KeywordSubjects == {"Your Credit Card Statement"}
KeywordBodies == {"Your monthly e-statement is attached."}

\* the call has downloaded (or is about to download) the first PDF for
\* content analysis, or has run the text extraction or the classifier
ContentAnalysisUnderWay ==
    \/ pc \in {"downloadFirst", "analyzePDFContent", "unlink"}
    \/ analysis # <<>>
    \/ calls.parsePDF > 0
    \/ calls.classifier > 0

MessageFetched ==
    /\ pc \notin {"idle", "getEmailDetails"}
    /\ ~(outcome # <<>> /\ "error" \in DOMAIN outcome[1]
           /\ outcome[1].error = "Failed to get email: unavailable")

\* C10: in processEmail the first PDF is downloaded for content analysis,
\* and parsePDF and the classifier run, only for a message whose sender is
\* at no bank domain and whose subject and body contain no bank keyword; for
\* a message from "statements@hdfcbank.com" with a PDF the decision is
\* Case 1 and neither parsePDF nor the classifier has run.
C10_ContentAnalysisOnlyInCase3 ==
    /\ ContentAnalysisUnderWay =>
           /\ email.from \notin BankSenders
           /\ email.subject \notin KeywordSubjects
           /\ email.body \notin KeywordBodies
    /\ (email.from = "statements@hdfcbank.com" /\ email.pdfs # <<>> /\ MessageFetched) =>
           /\ decision.decisionCase = "Case 1"
           /\ calls.parsePDF = 0
           /\ calls.classifier = 0
           /\ analysis = <<>>

\* the message from "statements@hdfcbank.com" with two PDFs, returned as
\* Case 1 with both attachments downloaded and nothing extracted or classified
C10_Witness ==
    /\ email.from = "statements@hdfcbank.com"
    /\ Len(email.pdfs) = 2
    /\ pc = "done"
    /\ outcome # <<>>
    /\ ~outcome[1].skipped
    /\ outcome[1].decisionCase = "Case 1"
    /\ Len(outcome[1].attachments) = 2
    /\ calls = [NoCalls EXCEPT !.download = 2]

\* ---- Case 3 ----
\* the call went down the Case 3 branch and has returned
Case3Returned ==
    /\ pc = "done"
    /\ ~isFromBankDomain(HeaderOr(email.from, "Unknown"))
    /\ ~containsBankKeywords(HeaderOr(email.subject, "No Subject"))
    /\ ~containsBankKeywords(email.body)
    /\ email.pdfs # <<>>
    /\ MessageFetched

FirstPdfText == PdfTextOf[email.pdfs[1]]

\* the classifier's verdict on the text of the first PDF
FirstPdfVerdict == isLikelyCreditCardStatement(FirstPdfText)

Case3Accepted ==
    /\ ~outcome[1].skipped
    /\ outcome[1].decisionCase = "Case 3"
    /\ Len(outcome[1].attachments) = 1
    /\ outcome[1].attachments[1].analysis = analysis[1]

Case3Rejected ==
    /\ outcome[1].skipped
    /\ "decisionCase" \in DOMAIN outcome[1]
    /\ outcome[1].decisionCase = "Rejected"

\* C11 (as stated): when triage reaches Case 3 the message is accepted with
\* the verdict attached iff the classifier's verdict on the first PDF is
\* isStatement = true; otherwise it is returned as rejected with a reason
\* that carries the classifier's reason, the downloaded file being deleted.
C11_Case3AcceptOrRejectDeleted ==
    Case3Returned =>
        IF FirstPdfVerdict.isStatement
        THEN Case3Accepted
        ELSE /\ Case3Rejected
             /\ "reason" \in DOMAIN FirstPdfVerdict
             /\ Includes(outcome[1].reason, FirstPdfVerdict.reason)
             /\ 1 \notin uploads

\* C11 (amended): a Case 3 call whose download succeeded accepts the message
\* (decision Case 3, analysis attached, file kept) iff parsePDF returned a
\* text of 100 characters or more that the classifier called a statement;
\* otherwise it returns it as rejected, the reason carrying the reason of
\* analyzePDFContent (the classifier's when it ran and gave one), after one
\* fs.unlink of the file, which is gone unless that unlink failed.  A call
\* whose download failed returns the error result.
C11_Case3AcceptIffClassified ==
    Case3Returned =>
        IF calls.download = 1 /\ uploads = {} /\ analysis = <<>>
        THEN "error" \in DOMAIN outcome[1]
        ELSE /\ analysis # <<>>
             /\ Case3Accepted <=>
                    /\ calls.classifier = 1
                    /\ FirstPdfVerdict.isStatement
             /\ Case3Accepted => (uploads = {1} /\ calls.unlink = 0)
             /\ ~Case3Accepted =>
                    /\ Case3Rejected
                    /\ outcome[1].reason
                         = "PDF content not bank-related: " \o analysis[1].reason
                    /\ (calls.classifier = 1 /\ "reason" \in DOMAIN FirstPdfVerdict)
                           => analysis[1].reason = FirstPdfVerdict.reason
                    /\ calls.unlink = 1
                    /\ (calls.unlinkFailed = 0) => uploads = {}

\* a message whose first PDF is a letter without keywords: rejected with the
\* classifier's reason, the file deleted
C11_Witness ==
    /\ Case3Returned
    /\ email.pdfs[1] = "letter"
    /\ calls.classifier = 1
    /\ Case3Rejected
    /\ outcome[1].reason
         = "PDF content not bank-related: No credit card statement keywords found"
    /\ uploads = {}

(***************************************************************************)
(* Claims about the saved reward points (specification SpecNormalizer).    *)
(***************************************************************************)
Saved == rewardPoints # <<>>

\* what the response holds under rewardPoints.key (undefined when left out)
ModelValue(key) == Get(Get(groqResult, "rewardPoints"), key)

Present(key) == ModelValue(key).t \notin {"undefined", "null"}

NonEmptyArray(a) == a.t = "array" /\ a.v # <<>>

\* C12 (as stated): every numeric field saved is the model's value when
\* present and null when missing (never 0 by default), and the saved
\* breakdown is null unless the model returned a non-empty array.
C12_NormalizedToSchema ==
    Saved =>
        /\ \A k \in NumericKeys :
               rewardPoints[1][k] = IF Present(k) THEN ModelValue(k) ELSE JsNull
        /\ rewardPoints[1].breakdown
             = IF NonEmptyArray(ModelValue("breakdown"))
               THEN ModelValue("breakdown") ELSE JsNull

\* C13 (as stated): no record is saved with adjustedLapsed equal to closing
\* (both non-null) unless the statement text prints the same number beside
\* both labels.
C13_LapsedNeverEqualsClosing ==
    (/\ Saved
     /\ rewardPoints[1].adjustedLapsed.t = "number"
     /\ rewardPoints[1].closing.t = "number"
     /\ rewardPoints[1].adjustedLapsed = rewardPoints[1].closing)
        => (/\ stated.adjustedLapsed.t = "number"
            /\ stated.adjustedLapsed = stated.closing)

(***************************************************************************)
(* Claims about uploadStatement (specification SpecUpload).                *)
(***************************************************************************)
UploadFinished == upload.pc = "done"

\* a stage of the pipeline (PDF parsing, OCR, model call, response parsing)
\* failed for the uploaded document
UploadStageFailed ==
    /\ UploadFinished
    /\ upload.error # <<>>
    /\ upload.error[1] \in {"Failed to parse PDF: unreadable",
                            "Groq extraction failed: unavailable",
                            "Failed to parse Groq response as JSON. Please try again."}

\* C14 (as stated): when a pipeline stage has failed for a document, its
\* record exists afterwards with processingStatus failed and the error's
\* message, and no record is left in status processing once the pipeline
\* has finished for the document.
C14_FailureMarksRecordFailed ==
    /\ UploadStageFailed =>
           /\ upload.id \in DOMAIN store
           /\ store[upload.id].processingStatus = "failed"
           /\ store[upload.id].errorMessage = upload.error[1]
    /\ UploadFinished =>
           \A id \in DOMAIN store : store[id].processingStatus # "processing"

(***************************************************************************)
(* Claims about fetchStatementsFromGmail (specification SpecFetch).        *)
(***************************************************************************)
\* the response of the request is out, after the loop over result.statements
FetchSummarised == fetch.pc = "done" /\ fetch.statements # <<>>

\* in how many of processed, failed and duplicates document k is listed
TimesListed(k) ==
    Cardinality({j \in DOMAIN fetch.processed : fetch.processed[j] = k})
    + Cardinality({j \in DOMAIN fetch.failed : fetch.failed[j].i = k})
    + Cardinality({j \in DOMAIN fetch.duplicates : fetch.duplicates[j] = k})

\* C15: a failure on one document never stops the loop: every document of
\* result.statements is visited and ends in exactly one of processed,
\* failed and duplicates (skipped), and the counts of the response add up
\* to the number of documents.
C15_EveryDocumentCounted ==
    /\ \A k \in DOMAIN fetch.statements :
           /\ k < fetch.i => TimesListed(k) = 1
           /\ k > fetch.i => TimesListed(k) = 0
           /\ k = fetch.i => TimesListed(k) <= 1
    /\ FetchSummarised =>
           /\ fetch.i = Len(fetch.statements)
           /\ \A k \in DOMAIN fetch.statements : TimesListed(k) = 1
           /\ fetch.response[1].processed = Len(fetch.processed)
           /\ fetch.response[1].failed = Len(fetch.failed)
           /\ fetch.response[1].duplicates = Len(fetch.duplicates)
           /\ fetch.response[1].processed + fetch.response[1].failed
                + fetch.response[1].duplicates = Len(fetch.statements)

\* two documents: parsePDF threw on the first, the second was processed
C15_Witness ==
    /\ FetchSummarised
    /\ Len(fetch.statements) = 2
    /\ fetch.failed = <<[i |-> 1, error |-> "Failed to parse PDF: unreadable"]>>
    /\ fetch.processed = <<2>>
    /\ fetch.response[1].processed = 1
    /\ fetch.response[1].failed = 1

\* the lookup key of a saved document
KeyOf(doc) == <<doc.userId, doc.fileName, doc.gmailMessageId>>

\* the documents of the collection when the running fetch began
StoreBefore == SubSeq(store, 1, fetch.before)

DuplicateIndices == {fetch.duplicates[j] : j \in DOMAIN fetch.duplicates}

\* C16: through any sequence of fetches made one after the other the
\* collection holds at most one document for each (userId, fileName,
\* gmailMessageId); a document whose key was in the collection when the
\* fetch began gets no new record and, its lookup done, is reported as a
\* duplicate without parsing, validation or extraction.
C16_OneRecordPerKey ==
    /\ \A a \in DOMAIN store : \A b \in DOMAIN store :
           KeyOf(store[a]) = KeyOf(store[b]) => a = b
    /\ \A k \in fetch.looked :
           Existing(StoreBefore, fetch.statements[k]) # {}
               => /\ k \in DuplicateIndices
                  /\ k \notin fetch.validated
                  /\ k \notin fetch.extracted
                  /\ Existing(store, fetch.statements[k])
                       = Existing(StoreBefore, fetch.statements[k])
    /\ \A k \in DuplicateIndices : Existing(store, fetch.statements[k]) # {}

\* the second fetch of a message whose document the first fetch completed:
\* reported as a duplicate, the collection still holding the one record
C16_Witness ==
    /\ FetchSummarised
    /\ fetch.fetched = 1
    /\ fetch.duplicates = <<1>>
    /\ fetch.response[1].duplicates = 1
    /\ Len(store) = 1
    /\ store[1].processingStatus = "completed"
    /\ store[1].gmailMessageId = "m1"

\* the files the running fetch can have written
FilesOfFetch == {FileId(k) : k \in 1..MaxAttachments}

\* C17 (as stated): every attachment file downloaded during a fetch is
\* deleted by the time the request has finished, on every path, a failed
\* download of a later attachment of the message included.  (A file whose
\* fs.unlink itself failed is left aside.)
C17_DownloadsDeleted ==
    (fetch.pc = "done" /\ calls.unlinkFailed = 0)
        => uploads \cap FilesOfFetch = {}

\* the classifier's verdict on the text of document k of result.statements
VerdictOn(k) == isLikelyCreditCardStatement(PdfTextOf[fetch.statements[k].content])

ProcessedIndices == {fetch.processed[j] : j \in DOMAIN fetch.processed}

\* C20 (as stated): a document whose classifier verdict is isStatement =
\* false never passes the gate, whichever case accepted its message: no
\* extractRewardPoints call is made for it and no completed record is
\* created from it.
C20_ClassifierGate ==
    \A k \in DOMAIN fetch.statements :
        ~VerdictOn(k).isStatement
            => /\ k \notin fetch.extracted
               /\ k \notin ProcessedIndices

(***************************************************************************)
(* Claims about parsePDF (specification SpecParse).                        *)
(***************************************************************************)
ParseFinished == parse.pc \in {"returned", "thrown"}

\* parsePDF went down the OCR path
OcrPathTaken ==
    /\ parse.text # <<>>
    /\ parse.pc = "returned" => parse.result[1].extractionMethod = "ocr"

\* C18 (as stated): when parsePDF takes the OCR path, every temporary image
\* created for the document (page images and preprocessed copies) has been
\* deleted when parsePDF returns or throws, a conversion or a recognition
\* that fails part-way included.
C18_TempImagesDeleted ==
    (ParseFinished /\ OcrPathTaken) => temp = {}

\* the three conditions under which a text is judged scanned, on the text
\* extracted from the file and its number of pages
JudgedScanned(t, n) ==
    \/ t.trimmed < 100
    \/ t.trimmed < 200 * (IF n = 0 THEN 1 ELSE n)
    \/ 10 * t.bad > 3 * t.raw

DirectTaken == parse.pc = "returned" /\ parse.result[1].extractionMethod = "direct"

\* C19: every result of parsePDF with isScanned = false has extractionMethod
\* 'direct' and a text longer than 100 characters; every result whose text
\* is shorter than 100 characters has isScanned = true; and the direct path
\* is taken exactly when the extracted text is not judged scanned (total
\* length < 100, or average characters per page < 200, or ratio of
\* non-printable characters > 0.3) and is longer than 100 characters.
C19_DirectIffNotScanned ==
    /\ parse.pc = "returned" =>
          /\ parse.result[1].isScanned = FALSE =>
                /\ parse.result[1].extractionMethod = "direct"
                /\ parse.result[1].text.length > 100
          /\ parse.result[1].text.length < 100 => parse.result[1].isScanned = TRUE
    /\ parse.text # <<>> =>
          (DirectTaken <=> /\ ~JudgedScanned(ExtractedText(pdf), Len(pdf))
                           /\ ExtractedText(pdf).trimmed > 100)

\* a two-page file read directly, its text returned as not scanned
C19_Witness ==
    /\ parse.pc = "returned"
    /\ parse.result[1].isScanned = FALSE
    /\ parse.result[1].numPages = 2

(***************************************************************************)
(* Claims about the model response (specification SpecFetch).              *)
(***************************************************************************)
\* the parsed response has no rewardPoints key
LacksRewardPoints(response) == Get(response, "rewardPoints") = JsUndefined

\* C21 (as stated): a model response that parses as JSON but lacks the
\* rewardPoints key is a malformed response: no record is stored as
\* completed from it, in the Gmail path as in the manual upload.
C21_MissingKeyIsMalformed ==
    \A k \in DOMAIN store :
        (/\ store[k].aiResponse # <<>>
         /\ LacksRewardPoints(store[k].aiResponse[1]))
            => store[k].processingStatus # "completed"

(***************************************************************************)
(* Claims about the classifier's score (specification SpecClassifier).     *)
(***************************************************************************)
\* the number of indicators of the list found in the sample
FoundIn(indicators) ==
    Cardinality({i \in 1..Len(indicators) : TextIncludes(Sample, indicators[i])})

\* C22 (as stated): the score of a sample equals 3 for every required
\* keyword found, plus 2 for every known bank name found, plus 1 for every
\* positive indicator found, minus 5 for every negative indicator found:
\* each match contributes, not only the first match of a list.
C22_EachMatchContributes ==
    (ClassifyDone /\ LongEnough /\ RequiredInSample) =>
        Returned_verdict.score =
            3 * FoundIn(STATEMENT_INDICATORS.required)
              + 2 * FoundIn(STATEMENT_INDICATORS.bankNames)
              + FoundIn(STATEMENT_INDICATORS.positive)
              - 5 * FoundIn(STATEMENT_INDICATORS.negative)

(***************************************************************************)
(* Claims about written dates that do not exist (specification SpecDate).  *)
(***************************************************************************)
\* the period is written in one of the formats the parser has a pattern for
SupportedFormat ==
    \/ written.kind = "range" /\ <<written.layout, written.sep>> \in SupportedRanges
    \/ written.kind = "single"

\* C23 (as stated): for every statementPeriod in a supported format,
\* parseStatementDate returns null or the date whose day, month and year
\* are the numbers written for the end date; a written date that does not
\* exist is never turned into a different valid date.
C23_WrittenDateOrNull ==
    (ParseDone /\ SupportedFormat) =>
        \/ parsed[1] = NullDate
        \/ /\ Exists(written.end)
           /\ parsed[1] = DateOf(CalendarDay(written.end))

(***************************************************************************)
(* Claims about the status of a record (specification SpecFirstUpload).    *)
(***************************************************************************)
\* C24 (as stated): once a record has reached processingStatus completed,
\* no later step of the same ingestion (such as deleting the uploaded file)
\* and no later ingestion of another document, one of the same file name
\* included, changes its status.
C24_CompletedIsTerminal ==
    [][\A id \in DOMAIN store :
          store[id].processingStatus = "completed"
              => store'[id].processingStatus = "completed"]_vars

(***************************************************************************)
(* Claims about overlapping fetches (specification SpecOverlap).           *)
(***************************************************************************)
\* the requests that passed the lookup and saved a new record
Creators == {r \in 1..MaxOverlap : overlap[r].id # 0}

\* C25: the duplicate lookup is a check-then-act step without mutual
\* exclusion: every request that passed the lookup for the key before the
\* others saved creates its own record, so that the collection holds one
\* record of the key per such request.
C25_EachCreatesItsOwnRecord ==
    \A r \in Creators :
        /\ overlap[r].id \in Existing(store, OverlapDocument)
        /\ \A q \in Creators \ {r} : overlap[q].id # overlap[r].id

\* two overlapping requests have both passed the lookup and saved: two
\* records under one key
C25_Witness ==
    /\ Cardinality(Creators) >= 2
    /\ Cardinality(Existing(store, OverlapDocument)) >= 2

(***************************************************************************)
(* Claims about the order of lookup and extraction (SpecFetch).            *)
(***************************************************************************)
\* attachment k of the message had a record under its lookup key when the
\* running fetch began
RecordedBefore(k) ==
    /\ fetch.pc \notin {"idle", "start"}
    /\ \E id \in DOMAIN StoreBefore :
           KeyOf(StoreBefore[id]) = <<UserId, PdfAttachment(k).filename, "m1">>

\* C26 (as stated): for a document that already has a record under its
\* lookup key, a later fetch makes the lookup before any text extraction:
\* parsePDF is not run again for it, neither by the triage of the message
\* (which reads the first attachment in Case 3) nor by the controller,
\* whichever case the message falls in.
C26_LookupBeforeParsePDF ==
    /\ RecordedBefore(1) => calls.parsePDF = 0
    /\ \A k \in fetch.validated :
           Existing(StoreBefore, fetch.statements[k]) = {}

(***************************************************************************)
(* Claims about the attempts of the OCR (specification SpecParse).         *)
(***************************************************************************)
OcrReturned == parse.pc = "returned" /\ parse.result[1].extractionMethod = "ocr"

\* the confidences of the attempts made on page p, in the order made
AttemptsOn(p) ==
    LET OnPage(a) == a.page = p
        made == SelectSeq(parse.attempts, OnPage)
    IN  [k \in 1..Len(made) |-> made[k].confidence]

Highest(cs) == Max({cs[k] : k \in DOMAIN cs})

\* the attempts cs made on a page and the confidence kept for it follow the
\* adaptive scheme
Adaptive(cs, kept) ==
    /\ Len(cs) \in 1..3
    /\ kept = Highest(cs)
    /\ kept >= cs[1]
    /\ Len(cs) >= 2 <=> cs[1] < 70
    /\ Len(cs) = 3 <=> (cs[1] < 70 /\ Highest(SubSeq(cs, 1, 2)) < 60)

\* C27 (as stated): for every page that is OCRed the result kept is the
\* highest-confidence result of the attempts made; a second attempt is made
\* exactly when the first attempt's confidence is below 70 and a third
\* exactly when the best so far is still below 60; at most three attempts
\* are made and the kept confidence is never lower than the first one.
C27_AdaptiveOnEveryPage ==
    OcrReturned =>
        \A p \in 1..parse.result[1].numPages :
            Adaptive(AttemptsOn(p), parse.result[1].ocrPages[p].confidence)

\* C27 (amended): the adaptive scheme holds for the page of a one-page
\* document; every page of a document of several pages is recognised once
\* and that result is kept, whatever its confidence.
C27_AdaptiveOnSinglePage ==
    OcrReturned =>
        IF parse.result[1].numPages = 1
        THEN Adaptive(AttemptsOn(1), parse.result[1].ocrPages[1].confidence)
        ELSE \A p \in 1..parse.result[1].numPages :
                 AttemptsOn(p) = <<parse.result[1].ocrPages[p].confidence>>

\* a one-page document recognised three times (50, 50, 65), the third kept
C27_Witness ==
    /\ OcrReturned
    /\ parse.result[1].numPages = 1
    /\ AttemptsOn(1) = <<50, 50, 65>>
    /\ parse.result[1].ocrPages[1].confidence = 65

(***************************************************************************)
(* Claims about detectCardVariant (specification SpecVariant).             *)
(***************************************************************************)
VariantDone == card.variant # <<>>

\* the variants of the bank's dictionary; none for a missing or unknown
\* bank and for a bank without an entry
VariantsOfBank ==
    IF card.bankName = "" THEN {}
    ELSE IF getBankVariantsKey(normalizeBankName(card.bankName))
              \notin DOMAIN BANK_CARD_VARIANTS
    THEN {}
    ELSE {BANK_CARD_VARIANTS[getBankVariantsKey(normalizeBankName(card.bankName))][i] :
             i \in DOMAIN BANK_CARD_VARIANTS[
                              getBankVariantsKey(normalizeBankName(card.bankName))]}

\* the words of the variant's name longer than 2 characters found in the text
WordsFound(v) ==
    {k \in DOMAIN SplitWords(ToLowerCase(v)) :
        /\ Len(SplitWords(ToLowerCase(v))[k]) > 2
        /\ Includes(ToLowerCase(card.text), SplitWords(ToLowerCase(v))[k])}

\* the score of variant v as a pair <<numerator, denominator>>: 100 for a
\* case-insensitive match of the full name, otherwise the share of its
\* words found, times 80
ClaimedScore(v) ==
    IF Includes(ToLowerCase(card.text), ToLowerCase(v)) THEN <<100, 1>>
    ELSE <<Cardinality(WordsFound(v)) * 80, Len(SplitWords(ToLowerCase(v)))>>

\* v scores at least 40 and no other variant of the bank scores higher
Wins(v) ==
    /\ ClaimedScore(v)[1] >= 40 * ClaimedScore(v)[2]
    /\ \A u \in VariantsOfBank :
           ClaimedScore(u)[1] * ClaimedScore(v)[2]
               <= ClaimedScore(v)[1] * ClaimedScore(u)[2]

\* C28: detectCardVariant returns a variant of the bank's dictionary only
\* when that variant's score is at least 40 and no other variant of the
\* bank scores strictly higher; in every other case (a missing text, an
\* unknown bank, a bank without a dictionary entry, no variant reaching 40)
\* it returns "Unknown Variant".
C28_BestVariantOrUnknown ==
    VariantDone =>
        IF card.text # "" /\ \E v \in VariantsOfBank : Wins(v)
        THEN card.variant[1] \in VariantsOfBank /\ Wins(card.variant[1])
        ELSE card.variant[1] = "Unknown Variant"

\* "Skywards RUBYX" for ICICI Bank: two of the three words of "Emirates
\* Skywards Rubyx" are found and that variant is returned
C28_Witness ==
    /\ VariantDone
    /\ card.text = "Skywards RUBYX"
    /\ card.bankName = "ICICI Bank"
    /\ card.variant[1] = "Emirates Skywards Rubyx"

(***************************************************************************)
(* Claims about fetchAllStatements (specification SpecMailbox).            *)
(***************************************************************************)
MailboxReturned == mailbox.pc = "returned"

\* the number of messages whose processEmail result satisfies the test
Count(Test(_)) == Cardinality({k \in DOMAIN mailbox.returned : Test(mailbox.returned[k])})

WasSkipped(res) == res.skipped
WasProcessed(res) == ~res.skipped
RaisedError(res) == "error" \in DOMAIN res

\* C29: once fetchAllStatements has returned, processEmail has returned
\* once for every message of the list, an error on a message included;
\* totalEmails = ignored + processed, processed = case1 + case2 + case3 and
\* errors <= ignored; and every message that raised an error is among the
\* ignored ones.
C29_StatisticsConsistent ==
    MailboxReturned =>
        /\ Len(mailbox.returned) = Len(mailbox.messages)
        /\ mailbox.statistics[1].totalEmails = Len(mailbox.messages)
        /\ mailbox.statistics[1].totalEmails
               = mailbox.statistics[1].ignored + mailbox.statistics[1].processed
        /\ mailbox.statistics[1].processed
               = mailbox.statistics[1].case1 + mailbox.statistics[1].case2
                 + mailbox.statistics[1].case3
        /\ mailbox.statistics[1].errors <= mailbox.statistics[1].ignored
        /\ mailbox.statistics[1].ignored = Count(WasSkipped)
        /\ mailbox.statistics[1].processed = Count(WasProcessed)
        /\ mailbox.statistics[1].errors = Count(RaisedError)
        /\ \A k \in DOMAIN mailbox.returned :
               RaisedError(mailbox.returned[k]) => mailbox.returned[k].skipped

\* the first message raised an error and the second one was processed
C29_Witness ==
    /\ MailboxReturned
    /\ Len(mailbox.messages) = 2
    /\ RaisedError(mailbox.returned[1])
    /\ ~mailbox.returned[2].skipped
    /\ mailbox.statistics[1].errors = 1
    /\ mailbox.statistics[1].ignored = 1
    /\ mailbox.statistics[1].processed = 1

(***************************************************************************)
(* Claims about failed records of the Gmail path (specification SpecFetch).*)
(***************************************************************************)
\* the collection holds a failed record under the lookup key of a document
\* of the message with this file name
HasFailedRecord(docs, fileName) ==
    \E id \in DOMAIN docs :
        /\ KeyOf(docs[id]) = <<UserId, fileName, "m1">>
        /\ docs[id].processingStatus = "failed"

\* the documents the controller's step has run parsePDF or
\* extractRewardPoints on
Worked(before, after) ==
    (after.validated \ before.validated) \cup (after.extracted \ before.extracted)

\* the lookups the step has completed
LookedUp(before, after) == after.looked \ before.looked

\* C30 (as stated): a document with a failed record is never retried: a
\* failed record stays failed; no step runs text extraction (parsePDF, in
\* the triage of its message or in the controller) or the model call
\* (extractRewardPoints) on a document that has a failed record; and a
\* lookup completed for such a document reports it as a duplicate.
C30_FailedNeverRetried ==
    [][/\ \A id \in DOMAIN store :
              store[id].processingStatus = "failed"
                  => store'[id].processingStatus = "failed"
       /\ calls'.parsePDF > calls.parsePDF
              => ~HasFailedRecord(store, PdfAttachment(1).filename)
       /\ \A k \in Worked(fetch, fetch') :
              ~HasFailedRecord(store, fetch.statements[k].file.originalFilename)
       /\ \A k \in LookedUp(fetch, fetch') :
              HasFailedRecord(store, fetch.statements[k].file.originalFilename)
                  => fetch'.pc = "unlinkDuplicate"]_vars

\* the part of C30 that is about the controller alone
FailedNotRetriedByController ==
    [][/\ \A id \in DOMAIN store :
              store[id].processingStatus = "failed"
                  => store'[id].processingStatus = "failed"
       /\ \A k \in Worked(fetch, fetch') :
              ~HasFailedRecord(store, fetch.statements[k].file.originalFilename)
       /\ \A k \in LookedUp(fetch, fetch') :
              HasFailedRecord(store, fetch.statements[k].file.originalFilename)
                  => fetch'.pc = "unlinkDuplicate"]_vars

\* a later fetch has skipped a document with a failed record as a duplicate
FailedSkippedAsDuplicate ==
    /\ fetch.fetched > 0
    /\ fetch.pc = "unlinkDuplicate"
    /\ HasFailedRecord(StoreBefore, fetch.statements[fetch.i].file.originalFilename)
====
